---- MODULE Spec2Model ----
(***************************************************************************)
(* Model of the structural pipeline of scripts/analyze_lua_structure.py:   *)
(* coupling -> adjacency -> connected components -> quality gates ->       *)
(* per-cluster report.  Scores are exact rationals [n, d] (numerator,      *)
(* positive denominator); Python computes them in binary floating point.   *)
(***************************************************************************)
EXTENDS Integers, Sequences, FiniteSets, TLC

(***************************************************************************)
(* Strings: substring tests, lower(), split(), as the code applies them to *)
(* qualified function names.                                               *)
(***************************************************************************)
Contains(s, p) ==
    \E i \in 1..(Len(s) - Len(p) + 1) : SubSeq(s, i, i + Len(p) - 1) = p

AnyIn(pats, s) == \E p \in pats : Contains(s, p)

StartsWith(s, p) == Len(s) >= Len(p) /\ SubSeq(s, 1, Len(p)) = p

UpperChars ==
    <<"A","B","C","D","E","F","G","H","I","J","K","L","M",
      "N","O","P","Q","R","S","T","U","V","W","X","Y","Z">>

LowerChars ==
    <<"a","b","c","d","e","f","g","h","i","j","k","l","m",
      "n","o","p","q","r","s","t","u","v","w","x","y","z">>

IsUpper(c) == \E k \in 1..26 : UpperChars[k] = c

IsLower(c) == \E k \in 1..26 : LowerChars[k] = c

LowerChar(c) ==
    IF IsUpper(c) THEN LowerChars[CHOOSE k \in 1..26 : UpperChars[k] = c] ELSE c

RECURSIVE Lower(_)
Lower(s) ==
    IF Len(s) = 0 THEN ""
    ELSE LowerChar(SubSeq(s, 1, 1)) \o Lower(SubSeq(s, 2, Len(s)))

\* s.split(sep)[-1] for a one-character separator
RECURSIVE LastSegment(_, _)
LastSegment(s, sep) ==
    IF \E i \in 1..Len(s) : SubSeq(s, i, i) = sep
    THEN LET i == CHOOSE j \in 1..Len(s) :
                     /\ SubSeq(s, j, j) = sep
                     /\ \A k \in (j+1)..Len(s) : SubSeq(s, k, k) # sep
         IN SubSeq(s, i + 1, Len(s))
    ELSE s

\* s.split(sep)[0] for a one-character separator
FirstSegment(s, sep) ==
    IF \E i \in 1..Len(s) : SubSeq(s, i, i) = sep
    THEN LET i == CHOOSE j \in 1..Len(s) :
                     /\ SubSeq(s, j, j) = sep
                     /\ \A k \in 1..(j-1) : SubSeq(s, k, k) # sep
         IN SubSeq(s, 1, i - 1)
    ELSE s

STOPWORDS ==
    {"local","function","end","if","then","else","for","do","while",
     "return","nil","true","false","and","or","not"}

\* name.replace("M.", "")
RECURSIVE StripM(_)
StripM(s) ==
    IF Len(s) = 0 THEN ""
    ELSE IF StartsWith(s, "M.") THEN StripM(SubSeq(s, 3, Len(s)))
    ELSE SubSeq(s, 1, 1) \o StripM(SubSeq(s, 2, Len(s)))

IsSep(c) == c \in {"_", ".", ":", " "}

\* words of s after the separators became blanks and a blank was inserted
\* at every lower-case/upper-case boundary; i is the scan position, cur the
\* word being read, prev the previous character
RECURSIVE Words(_, _, _, _)
Words(s, i, cur, prev) ==
    IF i > Len(s) THEN (IF cur = "" THEN {} ELSE {cur})
    ELSE LET c == SubSeq(s, i, i) IN
         IF IsSep(c)
         THEN (IF cur = "" THEN {} ELSE {cur}) \cup Words(s, i + 1, "", c)
         ELSE IF IsLower(prev) /\ IsUpper(c)
         THEN (IF cur = "" THEN {} ELSE {cur}) \cup Words(s, i + 1, c, c)
         ELSE Words(s, i + 1, cur \o c, c)

tokenize_identifier(name) ==
    {Lower(w) : w \in Words(StripM(name), 1, "", "")} \ STOPWORDS

(***************************************************************************)
(* Exact rational arithmetic.  A score is [n |-> numerator, d |-> positive *)
(* denominator] in lowest terms.                                           *)
(***************************************************************************)
Abs(x) == IF x < 0 THEN -x ELSE x

RECURSIVE GCD(_, _)
GCD(a, b) == IF b = 0 THEN a ELSE GCD(b, a % b)

Q(n, d) ==
    LET g == GCD(Abs(n), Abs(d))
        s == IF d < 0 THEN -1 ELSE 1
    IN [n |-> s * (n \div g), d |-> s * (d \div g)]

QInt(k) == [n |-> k, d |-> 1]

QAdd(a, b) ==
    LET g == GCD(a.d, b.d)
    IN Q(a.n * (b.d \div g) + b.n * (a.d \div g), (a.d \div g) * b.d)

QNeg(a) == [n |-> -a.n, d |-> a.d]

QSub(a, b) == QAdd(a, QNeg(b))

QMul(a, b) ==
    LET g1 == GCD(Abs(a.n), b.d)
        g2 == GCD(Abs(b.n), a.d)
    IN Q((a.n \div g1) * (b.n \div g2), (a.d \div g2) * (b.d \div g1))

\* a <= b.  Large operands are compared by their integer parts and then
\* by the reciprocals of the fractional parts, so that no product overflows.
RECURSIVE QLeLarge(_, _)
QLeLarge(a, b) ==
    LET qa == a.n \div a.d
        qb == b.n \div b.d
        ra == a.n % a.d
        rb == b.n % b.d
    IN IF qa # qb THEN qa < qb
       ELSE IF ra = 0 THEN TRUE
       ELSE IF rb = 0 THEN FALSE
       ELSE QLeLarge([n |-> b.d, d |-> rb], [n |-> a.d, d |-> ra])

IsSmall(x) == Abs(x) < 30000

QLe(a, b) ==
    IF a.d = b.d THEN a.n <= b.n
    ELSE IF IsSmall(a.n) /\ IsSmall(a.d) /\ IsSmall(b.n) /\ IsSmall(b.d)
    THEN a.n * b.d <= b.n * a.d
    ELSE QLeLarge(a, b)

QLt(a, b) == ~QLe(b, a)
QGe(a, b) == QLe(b, a)
QGt(a, b) == ~QLe(a, b)
QMin(a, b) == IF QLe(a, b) THEN a ELSE b
QMax(a, b) == IF QLe(a, b) THEN b ELSE a
QAbs(a) == [n |-> Abs(a.n), d |-> a.d]

Zero == QInt(0)
One == QInt(1)

\* dict.get(key, default); a dict that is None or empty is the empty function
Get(dict, key, default) == IF key \in DOMAIN dict THEN dict[key] ELSE default

EmptyDict == [k \in {} |-> 0]

\* the function f with every value computed, so that a later application
\* is a lookup
RECURSIVE Tabulated(_, _)
Tabulated(S, f) ==
    IF S = {} THEN EmptyDict
    ELSE LET x == CHOOSE y \in S : TRUE IN (x :> f[x]) @@ Tabulated(S \ {x}, f)

\* a dotted name is taken to be qualified already and is kept
QualifyUnlessDotted(fn_name, module_name) ==
    IF StartsWith(fn_name, "M.")
    THEN module_name \o "." \o SubSeq(fn_name, 3, Len(fn_name))
    ELSE IF Contains(fn_name, ".") THEN fn_name
    ELSE module_name \o ":" \o fn_name

\* qualify_function_name: M.create becomes project_browser.create and
\* helper becomes project_browser:helper
qualify_function_name(fn_name, module_name) ==
    IF StartsWith(fn_name, "M.")
    THEN module_name \o "." \o SubSeq(fn_name, 3, Len(fn_name))
    ELSE module_name \o ":" \o fn_name

(***************************************************************************)
(* The function bodies the model analyses: the records parse_lua returns   *)
(* for a file browser.lua, already qualified as analyze() qualifies them.  *)
(* A project is a subset of these functions; a callee that is not in the   *)
(* project stays in calls as an unresolved name.                           *)
(***************************************************************************)
\* the callee names of a body as analyze() stores them: every one is
\* qualified with the module of the file the body is in, whatever module
\* its text names
QualifiedCalls(callees, module_name) ==
    {qualify_function_name(callee, module_name) : callee \in callees}

QtCallees ==
    {"browser:qt_create_widget", "browser:qt_set_layout", "browser:qt_add_widget",
     "browser:qt_set_parent", "browser:qt_show", "browser:qt_connect"}

Bodies ==
    <<
      [name |-> "browser.activate_selection", scope |-> "top", loc |-> 14,
       calls |-> {"browser:update_selection_state", "browser:collect_items", "browser:print"},
       roots |-> {"browser_state", "M"},
       idents |-> {"browser_state", "M", "item", "tree", "index"},
       files_calling |-> 2, is_utility |-> FALSE],
      [name |-> "browser:update_selection_state", scope |-> "top", loc |-> 20,
       calls |-> {"browser:collect_items", "browser:helper"},
       roots |-> {"browser_state", "tree_widget", "selection_hub", "M"},
       idents |-> {"browser_state", "M", "item", "tree", "count"},
       files_calling |-> 0, is_utility |-> FALSE],
      [name |-> "browser:collect_items", scope |-> "top", loc |-> 8,
       calls |-> {},
       roots |-> {"browser_state"},
       idents |-> {"browser_state", "item", "tree", "count"},
       files_calling |-> 1, is_utility |-> FALSE],
      [name |-> "browser:helper", scope |-> "top", loc |-> 4,
       calls |-> {},
       roots |-> {"M"},
       idents |-> {"M", "value"},
       files_calling |-> 3, is_utility |-> TRUE],
      [name |-> "browser.create", scope |-> "top", loc |-> 30,
       calls |-> QtCallees \cup {"browser:helper"},
       roots |-> {"M", "qt_constants"},
       idents |-> {"M", "qt_constants", "widget", "layout"},
       files_calling |-> 1, is_utility |-> FALSE],
      [name |-> "browser.setup_ui", scope |-> "top", loc |-> 25,
       calls |-> QtCallees \cup {"browser:helper"},
       roots |-> {"M"},
       idents |-> {"M", "widget", "layout"},
       files_calling |-> 0, is_utility |-> FALSE],
      [name |-> "browser.buildLayout", scope |-> "top", loc |-> 25,
       calls |-> QtCallees \cup {"browser:helper"},
       roots |-> {"M"},
       idents |-> {"M", "widget", "layout"},
       files_calling |-> 0, is_utility |-> FALSE],
      [name |-> "browser:is_ready", scope |-> "top", loc |-> 3,
       calls |-> {},
       roots |-> {"browser_state"},
       idents |-> {"browser_state", "ready"},
       files_calling |-> 0, is_utility |-> FALSE],
      [name |-> "browser:set_ready", scope |-> "top", loc |-> 5,
       calls |-> {"browser:is_ready", "browser:collect_items"},
       roots |-> {"browser_state"},
       idents |-> {"browser_state", "ready", "value"},
       files_calling |-> 0, is_utility |-> FALSE],
      [name |-> "browser.init", scope |-> "top", loc |-> 9,
       calls |-> {"browser:set_ready", "browser:helper"},
       roots |-> {"browser_state", "M"},
       idents |-> {"browser_state", "M", "ready"},
       files_calling |-> 1, is_utility |-> FALSE],
      [name |-> "browser.open_item", scope |-> "top", loc |-> 10,
       calls |-> {"browser:collect_items", "browser:helper"},
       roots |-> {"browser_state", "M", "item"},
       idents |-> {"browser_state", "M", "item"},
       files_calling |-> 0, is_utility |-> FALSE],
      [name |-> "browser.close_item", scope |-> "nested", loc |-> 10,
       calls |-> {"browser:collect_items", "browser:helper"},
       roots |-> {"browser_state", "M"},
       idents |-> {"browser_state", "M", "item"},
       files_calling |-> 2, is_utility |-> FALSE],
      [name |-> "browser:handle_tree_item_changed", scope |-> "top", loc |-> 12,
       calls |-> {"browser:update_selection_state"},
       roots |-> {"browser_state", "tree_widget", "selection_hub", "M", "item"},
       idents |-> {"browser_state", "M", "item", "tree", "index"},
       files_calling |-> 0, is_utility |-> FALSE],
      \* one caller and its two callees, which share two roots the caller lacks
      [name |-> "browser.refresh_all_visible_rows", scope |-> "top", loc |-> 10,
       calls |-> {"browser:load_tree_data", "browser:draw_tree_cells"},
       roots |-> {"M"},
       idents |-> {"M", "x"},
       files_calling |-> 0, is_utility |-> FALSE],
      [name |-> "browser.process_all_visible_rows", scope |-> "top", loc |-> 10,
       calls |-> {"browser:load_tree_data", "browser:draw_tree_cells"},
       roots |-> {"M"},
       idents |-> {"M", "x"},
       files_calling |-> 0, is_utility |-> FALSE],
      [name |-> "browser:load_tree_data", scope |-> "top", loc |-> 8,
       calls |-> {},
       roots |-> {"session_state", "tree_widget"},
       idents |-> {"session_state", "tree_widget", "row"},
       files_calling |-> 1, is_utility |-> FALSE],
      [name |-> "browser:draw_tree_cells", scope |-> "top", loc |-> 8,
       calls |-> {},
       roots |-> {"session_state", "tree_widget"},
       idents |-> {"session_state", "tree_widget", "cell"},
       files_calling |-> 1, is_utility |-> FALSE],
      \* a second file, timeline.lua, whose text calls into browser.lua
      [name |-> qualify_function_name("M.refresh_rows", "timeline"), scope |-> "top",
       loc |-> 12,
       calls |-> QualifiedCalls({"draw_rows", "browser.activate_selection"}, "timeline"),
       roots |-> {"timeline_state", "browser_state", "M"},
       idents |-> {"timeline_state", "browser_state", "M", "row"},
       files_calling |-> 1, is_utility |-> FALSE],
      [name |-> qualify_function_name("draw_rows", "timeline"), scope |-> "top",
       loc |-> 8,
       calls |-> {},
       roots |-> {"timeline_state"},
       idents |-> {"timeline_state", "row", "cell"},
       files_calling |-> 0, is_utility |-> FALSE],
      [name |-> qualify_function_name("M.scroll_to", "timeline"), scope |-> "top",
       loc |-> 6,
       calls |-> QualifiedCalls({"draw_rows", "M.refresh_rows"}, "timeline"),
       roots |-> {"timeline_state", "M"},
       idents |-> {"timeline_state", "M", "row"},
       files_calling |-> 0, is_utility |-> FALSE]
    >>

AllNames == {Bodies[i].name : i \in DOMAIN Bodies}

\* the functions that occur only in the projects written out one by one
ScenarioNames ==
    {"browser.refresh_all_visible_rows", "browser.process_all_visible_rows",
     "browser:load_tree_data", "browser:draw_tree_cells",
     "timeline.refresh_rows", "timeline:draw_rows", "timeline.scroll_to"}

\* the functions the explored projects are freely combined from
Names == AllNames \ ScenarioNames

Body == [n \in AllNames |-> Bodies[CHOOSE i \in DOMAIN Bodies : Bodies[i].name = n]]

\* every name that can occur as a function or as a callee
KnownNames == AllNames \cup UNION {Bodies[i].calls : i \in DOMAIN Bodies}

KnownRoots == UNION {Bodies[i].roots : i \in DOMAIN Bodies}

(***************************************************************************)
(* Name and root predicates of the scoring functions.  They are pure in    *)
(* the string, so each is tabulated once over the names that occur.        *)
(***************************************************************************)
registration_patterns ==
    {"register_", "add_listener", "bind_", "set_handler", "on_", "handle_"}

widget_patterns == {"CREATE_", "LAYOUT", "qt_", "WIDGET"}

lifecycle_names == {"create", "init", "setup", "ensure", "build", "construct"}

action_words ==
    {"activate", "execute", "handle", "process", "apply", "perform", "focus", "select"}

\* any(p.lower() in name.lower() for p in patterns)
MatchesAny(patterns, name) == AnyIn({Lower(p) : p \in patterns}, Lower(name))

\* '.' in fn_name and ':' not in fn_name
IsExportedName(name) == Contains(name, ".") /\ ~Contains(name, ":")

\* fn_name.split('.')[-1].split(':')[-1].lower()
FnBase(name) == Lower(LastSegment(LastSegment(name, "."), ":"))

\* the tag with the state-accessor patterns (is_, set_, get_) forgotten
LifecycleNatureWithoutAccessors(name) ==
    LET fn_lower == Lower(name) IN
    IF AnyIn({"init", "setup"}, fn_lower) THEN "setup"
    ELSE IF AnyIn({"register", "callback", "notify"}, fn_lower) THEN "registration"
    ELSE IF AnyIn({"teardown", "destroy", "cleanup"}, fn_lower) THEN "lifecycle"
    ELSE ""

\* the boilerplate_nature tag the gate gives a member, "" when it has none
LifecycleNature(name) ==
    LET fn_lower == Lower(name) IN
    IF AnyIn({"init", "setup"}, fn_lower) THEN "setup"
    ELSE IF AnyIn({"register", "callback", "notify"}, fn_lower) THEN "registration"
    ELSE IF AnyIn({"is_", "set_", "get_"}, fn_lower) THEN "wiring"
    ELSE IF AnyIn({"teardown", "destroy", "cleanup"}, fn_lower) THEN "lifecycle"
    ELSE ""

NameFacts ==
    Tabulated(KnownNames, [n \in KnownNames |->
        [registration |-> MatchesAny(registration_patterns, n),
         widget       |-> MatchesAny(widget_patterns, n),
         lifecycle    |-> AnyIn(lifecycle_names, FnBase(n)),
         exported     |-> IsExportedName(n),
         nature       |-> LifecycleNature(n),
         action       |-> AnyIn(action_words, Lower(n)),
         tokens       |-> tokenize_identifier(n)]])

\* '.' in r or '_' in r
IsTableRoot ==
    Tabulated(KnownRoots, [r \in KnownRoots |-> Contains(r, ".") \/ Contains(r, "_")])

(***************************************************************************)
(* calculate_boilerplate_score.  func_loc and callers are optional: both   *)
(* call sites of the pipeline leave them out (EmptyDict).                  *)
(***************************************************************************)
FANOUT_HIGH_WATERMARK == 10

CallDensity(fn_name, fanout, func_loc) ==
    IF func_loc # EmptyDict /\ fn_name \in DOMAIN func_loc
    THEN LET loc == func_loc[fn_name] IN
         IF loc > 0
         THEN QMin(One, Q(fanout, IF loc > 1 THEN loc ELSE 1))
         ELSE Zero
    ELSE LET expected_loc == IF fanout * 2 > 5 THEN fanout * 2 ELSE 5
         IN QMin(One, Q(fanout, expected_loc))

RegistrationWeight(fn_name, fn_calls) ==
    LET by_name == QAdd(IF NameFacts[fn_name].registration THEN Q(5, 10) ELSE Zero,
                        IF NameFacts[fn_name].widget THEN Q(3, 10) ELSE Zero)
        hits == Cardinality({c \in fn_calls : NameFacts[c].registration})
                + Cardinality({c \in fn_calls : NameFacts[c].widget})
    IN QMin(One, QAdd(by_name, Q(hits, 10)))

LifecycleWeight(fn_name, callers) ==
    LET prefix == FirstSegment(fn_name, ".")
        external_callers ==
            {c \in Get(callers, fn_name, {}) : ~StartsWith(c, prefix)}
        w1 == IF NameFacts[fn_name].lifecycle THEN Q(6, 10) ELSE Zero
        w2 == IF NameFacts[fn_name].exported THEN Q(2, 10) ELSE Zero
        w3 == IF callers # EmptyDict /\ Cardinality(external_callers) = 1
              THEN Q(2, 10) ELSE Zero
    IN QMin(One, QAdd(w1, QAdd(w2, w3)))

BoilerplateRaw(fn_name, calls, func_loc, callers) ==
    LET fn_calls == Get(calls, fn_name, {})
        fanout == Cardinality(fn_calls)
        fanout_weight == QMin(One, Q(fanout, FANOUT_HIGH_WATERMARK))
    IN QAdd(QMul(Q(40, 100), fanout_weight),
       QAdd(QMul(Q(25, 100), CallDensity(fn_name, fanout, func_loc)),
       QAdd(QMul(Q(20, 100), RegistrationWeight(fn_name, fn_calls)),
            QMul(Q(15, 100), LifecycleWeight(fn_name, callers)))))

calculate_boilerplate_score(fn_name, calls, func_loc, callers) ==
    QMin(One, BoilerplateRaw(fn_name, calls, func_loc, callers))

BOILERPLATE_LIMIT == Q(6, 10)

IsBoilerplate(score) == QGe(score, BOILERPLATE_LIMIT)

(***************************************************************************)
(* calculate_nucleus_score                                                 *)
(***************************************************************************)
Max2(a, b) == IF a > b THEN a ELSE b

SemanticCentrality(fn_name, call_graph, func_scope) ==
    LET is_module_api ==
            /\ func_scope # EmptyDict
            /\ Get(func_scope, fn_name, "") = "top"
            /\ NameFacts[fn_name].exported
        cross_file_callers ==
            IF call_graph # EmptyDict /\ fn_name \in DOMAIN call_graph
            THEN call_graph[fn_name].files_calling ELSE 0
        s1 == IF is_module_api THEN Q(7, 10) ELSE Zero
        s2 == IF cross_file_callers >= 2 THEN Q(3, 10)
              ELSE IF cross_file_callers = 1 THEN Q(2, 10) ELSE Zero
    IN QMin(One, QAdd(s1, s2))

NucleusRaw(fn_name, cluster, calls, callers, context_roots, boilerplate_scores, veneers, call_graph, func_scope) ==
    LET boilerplate == Get(boilerplate_scores, fn_name, Zero)
        cluster_callers == {c \in Get(callers, fn_name, {}) : c \in cluster}
        non_boilerplate_callers ==
            {c \in cluster_callers : QLt(Get(boilerplate_scores, c, Zero), BOILERPLATE_LIMIT)}
        inward_call_weight ==
            Q(Cardinality(non_boilerplate_callers), Max2(1, Cardinality(cluster) - 1))
        fn_table_roots == {r \in Get(context_roots, fn_name, {}) : IsTableRoot[r]}
        cluster_roots ==
            UNION {{r \in Get(context_roots, other_fn, {}) : IsTableRoot[r]} :
                       other_fn \in cluster \ {fn_name}}
        shared_context_weight ==
            IF fn_table_roots # {} /\ cluster_roots # {}
            THEN Q(Cardinality(fn_table_roots \cap cluster_roots), Cardinality(fn_table_roots))
            ELSE Zero
        fn_calls == Get(calls, fn_name, {})
        internal_participation ==
            IF fn_calls # {}
            THEN Q(Cardinality(fn_calls \cap cluster), Cardinality(fn_calls))
            ELSE Zero
        semantic_centrality == SemanticCentrality(fn_name, call_graph, func_scope)
        raw_signal ==
            QAdd(QMul(Q(15, 100), inward_call_weight),
            QAdd(QMul(Q(10, 100), shared_context_weight),
            QAdd(QMul(Q(15, 100), internal_participation),
                 QMul(Q(60, 100), semantic_centrality))))
        veneer_adjustment ==
            IF fn_name \in veneers /\ QLt(semantic_centrality, Q(5, 10))
            THEN Q(7, 10) ELSE One
    IN QMul(QMul(raw_signal, QSub(One, boilerplate)), veneer_adjustment)

\* the score without the hard rule on boilerplate-heavy functions
NucleusScoreWithoutHardRule(fn_name, cluster, calls, callers, context_roots, boilerplate_scores, veneers, call_graph, func_scope) ==
    QMax(Zero, QMin(One,
         NucleusRaw(fn_name, cluster, calls, callers, context_roots,
                    boilerplate_scores, veneers, call_graph, func_scope)))

calculate_nucleus_score(fn_name, cluster, calls, callers, context_roots, boilerplate_scores, veneers, call_graph, func_scope) ==
    IF IsBoilerplate(Get(boilerplate_scores, fn_name, Zero))
    THEN Zero
    ELSE QMax(Zero, QMin(One,
              NucleusRaw(fn_name, cluster, calls, callers, context_roots,
                         boilerplate_scores, veneers, call_graph, func_scope)))

(***************************************************************************)
(* Iteration order.  The code iterates over Python sets of names, whose    *)
(* order is not fixed by the program (string hashing is seeded per run).   *)
(* order is the sequence in which the names come out; Iter(S) lists S.     *)
(***************************************************************************)
Iter(S, order) == SelectSeq(order, LAMBDA x : x \in S)

Pos(x, order) == CHOOSE i \in 1..Len(order) : order[i] = x

Range(seq) == {seq[i] : i \in 1..Len(seq)}

RECURSIVE SeqOfSet(_)
\* the members of a set of strings in a fixed (definitional) order
SeqOfSet(S) ==
    IF S = {} THEN <<>>
    ELSE LET x == CHOOSE y \in S : TRUE IN <<x>> \o SeqOfSet(S \ {x})

(***************************************************************************)
(* semantic_similarity and analyze.coupling                                *)
(***************************************************************************)
semantic_similarity(name_a, name_b) ==
    LET tokens_a == NameFacts[name_a].tokens
        tokens_b == NameFacts[name_b].tokens
    IN IF tokens_a = {} \/ tokens_b = {} THEN Zero
       ELSE Q(Cardinality(tokens_a \cap tokens_b), Cardinality(tokens_a \cup tokens_b))

CLUSTER_THRESHOLD == Q(25, 100)

MIN_EDGE == Q(15, 100)

\* the weight with the name-similarity term added whenever the names share a
\* token, whether or not a call or a shared root justifies it
CouplingRawUngated(a, b, calls, idents, context_roots, fanout) ==
    LET shared_roots == Get(context_roots, a, {}) \cap Get(context_roots, b, {})
        shared == Get(idents, a, {}) \cap Get(idents, b, {})
        a_calls_b == b \in Get(calls, a, {})
        b_calls_a == a \in Get(calls, b, {})
        t_roots == IF shared_roots # {}
                   THEN QMin(Q(8, 10), QAdd(Q(4, 10), Q(2 * Cardinality(shared_roots), 10)))
                   ELSE Zero
        t_idents == IF Cardinality(shared) >= 3
                    THEN QMin(Q(3, 10), Q(3 * Cardinality(shared), 100))
                    ELSE Zero
        t_call == IF a_calls_b THEN Q(5, 10 * Max2(1, fanout[a])) ELSE Zero
        t_fanout == QMin(Q(5, 10), Q(3 * fanout[b], 100))
        t_asym == IF a_calls_b /\ ~b_calls_a THEN Q(5, 100) ELSE Zero
        t_action == IF (a_calls_b \/ b_calls_a)
                       /\ (NameFacts[a].action \/ NameFacts[b].action)
                    THEN Q(15, 100) ELSE Zero
    IN QAdd(QSub(QSub(QAdd(QAdd(t_roots, t_idents), t_call), t_fanout), t_asym),
            QAdd(QMul(semantic_similarity(a, b), Q(3, 10)), t_action))

CouplingRaw(a, b, calls, idents, context_roots, fanout) ==
    LET shared_roots == Get(context_roots, a, {}) \cap Get(context_roots, b, {})
        shared == Get(idents, a, {}) \cap Get(idents, b, {})
        a_calls_b == b \in Get(calls, a, {})
        b_calls_a == a \in Get(calls, b, {})
        name_sim == semantic_similarity(a, b)
        t_roots == IF shared_roots # {}
                   THEN QMin(Q(8, 10), QAdd(Q(4, 10), Q(2 * Cardinality(shared_roots), 10)))
                   ELSE Zero
        t_idents == IF Cardinality(shared) >= 3
                    THEN QMin(Q(3, 10), Q(3 * Cardinality(shared), 100))
                    ELSE Zero
        t_call == IF a_calls_b THEN Q(5, 10 * Max2(1, fanout[a])) ELSE Zero
        t_fanout == QMin(Q(5, 10), Q(3 * fanout[b], 100))
        t_asym == IF a_calls_b /\ ~b_calls_a THEN Q(5, 100) ELSE Zero
        t_name == IF QGt(name_sim, Zero) /\ (shared_roots # {} \/ a_calls_b \/ b_calls_a)
                  THEN QMul(name_sim, Q(3, 10)) ELSE Zero
        t_action == IF (a_calls_b \/ b_calls_a)
                       /\ (NameFacts[a].action \/ NameFacts[b].action)
                    THEN Q(15, 100) ELSE Zero
    IN QAdd(QSub(QSub(QAdd(QAdd(t_roots, t_idents), t_call), t_fanout), t_asym),
            QAdd(t_name, t_action))

\* the weight without the final clamp
CouplingUnclamped(a, b, calls, idents, context_roots, fanout) ==
    CouplingRaw(a, b, calls, idents, context_roots, fanout)

coupling(a, b, calls, idents, context_roots, fanout) ==
    QMax(Zero, QMin(One, CouplingRaw(a, b, calls, idents, context_roots, fanout)))

(***************************************************************************)
(* Phase A of analyze(): veneers, utilities, weighted edges, adjacency,    *)
(* callers and connected components.                                       *)
(***************************************************************************)
LEAF_LOC_MAX == 12

Veneers(functions, calls, func_loc, func_scope) ==
    {fn \in functions :
        /\ Get(func_scope, fn, "") = "top"
        /\ Cardinality(Get(calls, fn, {})) = 1
        /\ Get(func_loc, fn, 0) <= LEAF_LOC_MAX}

\* the utility filter left out
UtilitiesKept(functions, call_graph) == {}

Utilities(functions, call_graph) ==
    IF call_graph # EmptyDict
    THEN {fn \in functions : fn \in DOMAIN call_graph /\ call_graph[fn].is_utility}
    ELSE {}

\* the (a, b) for which the edge loop evaluates coupling(a, b), in the order
\* it meets them: a pair already seen in the other direction is skipped
VisitedPairs(structural, calls, order) ==
    LET outer == Iter(structural, order)
        row(a) == SelectSeq(Iter(structural, order),
                     LAMBDA b : /\ b \in Get(calls, a, {})
                                /\ a # b
                                /\ ~(a \in Get(calls, b, {}) /\ Pos(b, order) < Pos(a, order)))
        F[i \in 0..Len(outer)] ==
            IF i = 0 THEN <<>>
            ELSE F[i - 1] \o [j \in 1..Len(row(outer[i])) |-> <<outer[i], row(outer[i])[j]>>]
    IN F[Len(outer)]

AllEdges(structural, calls, idents, context_roots, fanout, order) ==
    LET pairs == VisitedPairs(structural, calls, order)
        weighted == [i \in 1..Len(pairs) |->
                        <<pairs[i][1], pairs[i][2],
                          coupling(pairs[i][1], pairs[i][2], calls, idents, context_roots, fanout)>>]
    IN SelectSeq(weighted, LAMBDA e : QGe(e[3], MIN_EDGE))

Adjacency(structural, calls, idents, context_roots, fanout, order) ==
    LET pairs == VisitedPairs(structural, calls, order)
        strong == {i \in 1..Len(pairs) :
                      QGe(coupling(pairs[i][1], pairs[i][2], calls, idents, context_roots, fanout),
                          CLUSTER_THRESHOLD)}
    IN [n \in structural |->
          {pairs[i][2] : i \in {k \in strong : pairs[k][1] = n}}
          \cup {pairs[i][1] : i \in {k \in strong : pairs[k][2] = n}}]

\* callers as analyze() hands them to scoring
CallersFor(structural, calls, call_graph) ==
    IF call_graph # EmptyDict
    THEN [fn \in structural \cap DOMAIN call_graph |->
             call_graph[fn].callers \cap structural]
    ELSE [callee \in {f \in structural : \E c \in structural : f \in Get(calls, c, {})} |->
             {c \in structural : callee \in Get(calls, c, {})}]

\* a traversal that stops at the direct neighbours of its start node
TraverseOneStep(stack, visited, component, adjacency) ==
    [visited |-> visited \cup {stack[Len(stack)]} \cup Get(adjacency, stack[Len(stack)], {}),
     component |-> ({stack[Len(stack)]} \cup Get(adjacency, stack[Len(stack)], {})) \ visited]

\* the inner while loop of find_connected_components: one component
RECURSIVE Traverse(_, _, _, _)
Traverse(stack, visited, component, adjacency) ==
    IF stack = <<>> THEN [visited |-> visited, component |-> component]
    ELSE LET n == stack[Len(stack)]
             rest == SubSeq(stack, 1, Len(stack) - 1)
         IN IF n \in visited
            THEN Traverse(rest, visited, component, adjacency)
            ELSE Traverse(rest \o SeqOfSet(Get(adjacency, n, {}) \ (visited \cup {n})),
                          visited \cup {n}, component \cup {n}, adjacency)

RECURSIVE Components(_, _, _, _)
\* the outer for loop over nodes (a sequence in iteration order)
Components(nodes, visited, components, adjacency) ==
    IF nodes = <<>> THEN components
    ELSE IF nodes[1] \in visited
    THEN Components(Tail(nodes), visited, components, adjacency)
    ELSE LET t == Traverse(<<nodes[1]>>, visited, {}, adjacency)
         IN Components(Tail(nodes), t.visited,
                       IF Cardinality(t.component) >= 2
                       THEN Append(components, t.component) ELSE components,
                       adjacency)

find_connected_components(nodes, adjacency, order) ==
    Components(Iter(nodes, order), {}, <<>>, adjacency)

(***************************************************************************)
(* Scoring of one cluster, as validate_and_split_clusters and              *)
(* _analysis_for_cluster both do it before they judge.                     *)
(***************************************************************************)
None == "None"

BoilerplateScores(cluster, calls) ==
    Tabulated(cluster,
        [fn \in cluster |-> calculate_boilerplate_score(fn, calls, EmptyDict, EmptyDict)])

NucleusScores(cluster, calls, callers, context_roots, boilerplate_scores, veneers, call_graph, func_scope) ==
    Tabulated(cluster,
        [fn \in cluster |->
            calculate_nucleus_score(fn, cluster, calls, callers, context_roots,
                                    boilerplate_scores, veneers, call_graph, func_scope)])

\* sorted(seq, key=score, reverse=True): stable, so equal scores keep the
\* order in which the iteration delivered them
RECURSIVE InsertDesc(_, _, _)
InsertDesc(x, sorted, score) ==
    IF sorted = <<>> THEN <<x>>
    ELSE IF QGe(score[sorted[1]], score[x])
    THEN <<sorted[1]>> \o InsertDesc(x, Tail(sorted), score)
    ELSE <<x>> \o sorted

RECURSIVE SortedDesc(_, _)
SortedDesc(seq, score) ==
    IF seq = <<>> THEN <<>>
    ELSE InsertDesc(seq[Len(seq)], SortedDesc(SubSeq(seq, 1, Len(seq) - 1), score), score)

Prefix(seq, k) == SubSeq(seq, 1, IF k < Len(seq) THEN k ELSE Len(seq))

RECURSIVE QSum(_, _)
QSum(seq, score) ==
    IF seq = <<>> THEN Zero ELSE QAdd(score[seq[1]], QSum(Tail(seq), score))

RECURSIVE MaxOver(_, _, _)
MaxOver(S, scores, best) ==
    IF S = {} THEN best
    ELSE LET f == CHOOSE g \in S : TRUE
         IN MaxOver(S \ {f}, scores, QMax(best, scores[f]))

\* max(scores.values()) if scores else 0.0, for non-negative scores
MaxScore(scores) == MaxOver(DOMAIN scores, scores, Zero)

(***************************************************************************)
(* validate_and_split_clusters: the three stop conditions for one cluster  *)
(***************************************************************************)
NUCLEUS_THRESHOLD == Q(42, 100)

COMPETING_MARGIN == Q(5, 100)

LIFECYCLE_FRACTION_MIN == Q(67, 100)

BOILERPLATE_FRACTION_MIN == Q(5, 10)

LifecycleFuncs(cluster) == {fn \in cluster : NameFacts[fn].nature # ""}

ModeA(cluster, nucleus_scores, boilerplate_scores, order) ==
    LET high_centrality_funcs == Prefix(SortedDesc(Iter(cluster, order), nucleus_scores), 3)
        high_centrality_boilerplate ==
            SelectSeq(high_centrality_funcs, LAMBDA fn : IsBoilerplate(boilerplate_scores[fn]))
        boilerplate_funcs == {fn \in cluster : IsBoilerplate(boilerplate_scores[fn])}
        boilerplate_fraction == Q(Cardinality(boilerplate_funcs), Max2(1, Cardinality(cluster)))
    IN /\ Len(high_centrality_boilerplate) >= Len(high_centrality_funcs)
       /\ QGe(boilerplate_fraction, BOILERPLATE_FRACTION_MIN)

ModeB(cluster) ==
    QGe(Q(Cardinality(LifecycleFuncs(cluster)), Max2(1, Cardinality(cluster))),
        LIFECYCLE_FRACTION_MIN)

Nuclei(cluster, nucleus_scores) ==
    {fn \in cluster : QGe(nucleus_scores[fn], NUCLEUS_THRESHOLD)}

Competing(cluster, nucleus_scores) ==
    LET nuclei == Nuclei(cluster, nucleus_scores)
        top_score == MaxScore([fn \in nuclei |-> nucleus_scores[fn]])
    IN {fn \in nuclei : QLe(QAbs(QSub(nucleus_scores[fn], top_score)), COMPETING_MARGIN)}

\* the stop conditions with the third one left out
StopConditionsWithoutCompeting(cluster, nucleus_scores, mode_a_triggered, mode_b_triggered) ==
    IF mode_a_triggered \/ mode_b_triggered
    THEN [cluster |-> cluster, reason |-> "boilerplate_dominated",
          mode |-> IF mode_a_triggered THEN "high_fanout" ELSE "lifecycle",
          nuclei |-> {},
          boilerplate_nature |-> {NameFacts[fn].nature : fn \in LifecycleFuncs(cluster)}]
    ELSE IF Cardinality(Nuclei(cluster, nucleus_scores)) = 0
    THEN [cluster |-> cluster, reason |-> "no_nucleus", mode |-> None,
          nuclei |-> {}, boilerplate_nature |-> {}]
    ELSE [cluster |-> cluster, reason |-> "accepted", mode |-> None,
          nuclei |-> Nuclei(cluster, nucleus_scores), boilerplate_nature |-> {}]

\* the stop conditions with the second one tested before the first
StopConditionsNucleusFirst(cluster, nucleus_scores, mode_a_triggered, mode_b_triggered) ==
    IF Cardinality(Nuclei(cluster, nucleus_scores)) = 0
    THEN [cluster |-> cluster, reason |-> "no_nucleus", mode |-> None,
          nuclei |-> {}, boilerplate_nature |-> {}]
    ELSE StopConditionsWithoutCompeting(cluster, nucleus_scores,
                                        mode_a_triggered, mode_b_triggered)

\* the three stop conditions in the order the loop tests them: reason is
\* "accepted" or the rejection reason of the first one that matches
StopConditions(cluster, nucleus_scores, mode_a_triggered, mode_b_triggered) ==
    LET nuclei == Nuclei(cluster, nucleus_scores)
        competing == Competing(cluster, nucleus_scores)
    IN IF mode_a_triggered \/ mode_b_triggered
       THEN [cluster |-> cluster, reason |-> "boilerplate_dominated",
             mode |-> IF mode_a_triggered THEN "high_fanout" ELSE "lifecycle",
             nuclei |-> {},
             boilerplate_nature |-> {NameFacts[fn].nature : fn \in LifecycleFuncs(cluster)}]
       ELSE IF Cardinality(nuclei) = 0
       THEN [cluster |-> cluster, reason |-> "no_nucleus", mode |-> None,
             nuclei |-> {}, boilerplate_nature |-> {}]
       ELSE IF Cardinality(nuclei) > 1 /\ Cardinality(competing) > 1
       THEN [cluster |-> cluster, reason |-> "competing_nuclei", mode |-> None,
             nuclei |-> competing, boilerplate_nature |-> {}]
       ELSE [cluster |-> cluster, reason |-> "accepted", mode |-> None,
             nuclei |-> nuclei, boilerplate_nature |-> {}]

\* the verdict of the loop body on one cluster
GateVerdict(cluster, nucleus_scores, boilerplate_scores, order) ==
    StopConditions(cluster, nucleus_scores,
                   ModeA(cluster, nucleus_scores, boilerplate_scores, order),
                   ModeB(cluster))

(***************************************************************************)
(* detect_proto_nucleus                                                    *)
(***************************************************************************)
PROTO_LOW == Q(40, 100)

PROTO_HIGH == Q(55, 100)

\* the collective strength the docstring names (mean >= 0.50)
PROTO_STRENGTH_DOCSTRING == Q(50, 100)

PROTO_STRENGTH_MIN == Q(45, 100)

ProtoSupported(proto_set, context_roots, boilerplate_scores, calls) ==
    LET counted == {i \in 1..Len(proto_set) :
                       QLt(Get(boilerplate_scores, proto_set[i], Zero), BOILERPLATE_LIMIT)}
        shared_roots ==
            IF counted = {} THEN {}
            ELSE {r \in Get(context_roots, proto_set[CHOOSE i \in counted : TRUE], {}) :
                     \A i \in counted : r \in Get(context_roots, proto_set[i], {})}
        has_call_relationship ==
            \E i \in 1..Len(proto_set) : \E j \in (i + 1)..Len(proto_set) :
                LET fn_a == proto_set[i]
                    fn_b == proto_set[j]
                IN \/ fn_b \in Get(calls, fn_a, {})
                   \/ fn_a \in Get(calls, fn_b, {})
                   \/ Get(calls, fn_a, {}) \cap Get(calls, fn_b, {}) # {}
    IN shared_roots # {} /\ has_call_relationship

detect_proto_nucleus(cluster, nucleus_scores, context_roots, boilerplate_scores, calls, order) ==
    LET candidates == SelectSeq(Iter(cluster, order),
                          LAMBDA fn : /\ QLe(PROTO_LOW, Get(nucleus_scores, fn, Zero))
                                      /\ QLt(Get(nucleus_scores, fn, Zero), PROTO_HIGH))
        candidates_sorted == SortedDesc(candidates, nucleus_scores)
        last == IF Len(candidates_sorted) < 5 THEN Len(candidates_sorted) ELSE 5
        ok(size) ==
            LET proto_set == SubSeq(candidates_sorted, 1, size) IN
            /\ QGe(QMul(QSum(proto_set, nucleus_scores), Q(1, size)), PROTO_STRENGTH_MIN)
            /\ ProtoSupported(proto_set, context_roots, boilerplate_scores, calls)
    IN IF Len(candidates) < 2 THEN <<>>
       ELSE IF \E size \in 2..last : ok(size)
       THEN SubSeq(candidates_sorted, 1,
                   CHOOSE size \in 2..last : ok(size) /\ \A t \in 2..(size - 1) : ~ok(t))
       ELSE <<>>

(***************************************************************************)
(* find_inappropriate_connections                                          *)
(***************************************************************************)
\* both ends of an edge count as a shared nucleus from this score on
SHARED_NUCLEUS_MIN == Q(55, 100)

RECURSIVE StrengthSum(_)
\* sum of the strengths of a list of (fn_a, fn_b, strength)
StrengthSum(edges) ==
    IF edges = <<>> THEN Zero ELSE QAdd(edges[1][3], StrengthSum(Tail(edges)))

RECURSIVE SquareSum(_, _)
\* sum of the squared deviations of the strengths from mean
SquareSum(edges, mean) ==
    IF edges = <<>> THEN Zero
    ELSE QAdd(QMul(QSub(edges[1][3], mean), QSub(edges[1][3], mean)),
              SquareSum(Tail(edges), mean))

\* statistics.stdev squared (sample variance), 0 for a single value
StdevSquared(edges, mean) ==
    IF Len(edges) > 1 THEN QMul(SquareSum(edges, mean), Q(1, Len(edges) - 1)) ELSE Zero

\* strength < mean + stdev; the deviation is irrational in general, so the
\* comparison is made on the squares
BelowThreshold(strength, mean, variance) ==
    \/ QLt(strength, mean)
    \/ QLt(QMul(QSub(strength, mean), QSub(strength, mean)), variance)

find_inappropriate_connections(cluster, internal_edges, nucleus_scores, context_roots, boilerplate_scores) ==
    IF internal_edges = <<>> THEN <<>>
    ELSE SelectSeq(internal_edges,
            LAMBDA e :
                LET mean_coupling == QMul(StrengthSum(internal_edges), Q(1, Len(internal_edges)))
                    both_nucleus == /\ QGe(Get(nucleus_scores, e[1], Zero), SHARED_NUCLEUS_MIN)
                                    /\ QGe(Get(nucleus_scores, e[2], Zero), SHARED_NUCLEUS_MIN)
                    has_shared_context ==
                        /\ QLt(Get(boilerplate_scores, e[1], Zero), BOILERPLATE_LIMIT)
                        /\ QLt(Get(boilerplate_scores, e[2], Zero), BOILERPLATE_LIMIT)
                        /\ Get(context_roots, e[1], {}) \cap Get(context_roots, e[2], {}) # {}
                IN /\ ~BelowThreshold(e[3], mean_coupling,
                                      StdevSquared(internal_edges, mean_coupling))
                   /\ ~both_nucleus
                   /\ ~has_shared_context)

(***************************************************************************)
(* _analysis_for_cluster: nucleus, proto-nucleus, leverage point, state    *)
(***************************************************************************)
\* the threshold the comments of Phase 2 name
REPORT_NUCLEUS_DOCSTRING == Q(65, 100)

REPORT_NUCLEUS_MIN == Q(45, 100)

\* is_micro_cluster writes the value as a literal: len(cluster) <= 4
SMALL_CLUSTER_MAX == 4

\* Phase 2: the loop keeps the first member, in iteration order, that holds
\* the highest score among those reaching the report threshold
RECURSIVE FindNucleus(_, _, _, _)
FindNucleus(members, nucleus_scores, nucleus, nucleus_score) ==
    IF members = <<>> THEN [nucleus |-> nucleus, nucleus_score |-> nucleus_score]
    ELSE LET fn == members[1] IN
         IF QGe(nucleus_scores[fn], REPORT_NUCLEUS_MIN) /\ QGt(nucleus_scores[fn], nucleus_score)
         THEN FindNucleus(Tail(members), nucleus_scores, fn, nucleus_scores[fn])
         ELSE FindNucleus(Tail(members), nucleus_scores, nucleus, nucleus_score)

\* Phase 4: the candidate loop; best is [candidate, context_count, nucleus_score]
RECURSIVE LeverageScan(_, _, _, _, _, _)
LeverageScan(candidates, best, nucleus_context_count, context_roots, nucleus_scores, boilerplate_scores) ==
    IF candidates = <<>> THEN best
    ELSE LET fn == candidates[1]
             fn_context_count == Cardinality(Get(context_roots, fn, {}))
             fn_score == Get(nucleus_scores, fn, Zero)
             next ==
                 IF IsBoilerplate(Get(boilerplate_scores, fn, Zero)) THEN best
                 ELSE IF fn_context_count > best.context_count
                 THEN [candidate |-> fn, context_count |-> fn_context_count,
                       nucleus_score |-> fn_score]
                 ELSE IF /\ fn_context_count = best.context_count
                         /\ fn_context_count > nucleus_context_count
                         /\ QGt(fn_score, best.nucleus_score)
                 THEN [candidate |-> fn, context_count |-> best.context_count,
                       nucleus_score |-> fn_score]
                 ELSE best
         IN LeverageScan(Tail(candidates), next, nucleus_context_count, context_roots,
                         nucleus_scores, boilerplate_scores)

\* the leverage point without the restraint on small clusters
LeveragePointAnySize(cluster, nucleus, context_roots, nucleus_scores, boilerplate_scores, order) ==
    LET is_micro_cluster == Cardinality(cluster) <= SMALL_CLUSTER_MAX
        skip_leverage_for_micro == FALSE
        nucleus_context_count == Cardinality(Get(context_roots, nucleus, {}))
        best == LeverageScan(Iter(cluster \ {nucleus}, order),
                             [candidate |-> None, context_count |-> nucleus_context_count,
                              nucleus_score |-> Zero],
                             nucleus_context_count, context_roots,
                             nucleus_scores, boilerplate_scores)
    IN IF nucleus # None /\ ~skip_leverage_for_micro
          /\ best.candidate # None
          /\ ~(best.context_count - nucleus_context_count <= 1)
       THEN [leverage_point |-> best.candidate, leverage_context_count |-> best.context_count]
       ELSE [leverage_point |-> None, leverage_context_count |-> 0]

\* the leverage point with a context delta of 1 not suppressed
LeveragePointUnsuppressed(cluster, nucleus, context_roots, nucleus_scores, boilerplate_scores, order) ==
    LET is_micro_cluster == Cardinality(cluster) <= SMALL_CLUSTER_MAX
        skip_leverage_for_micro == is_micro_cluster /\ nucleus # None
        nucleus_context_count == Cardinality(Get(context_roots, nucleus, {}))
        best == LeverageScan(Iter(cluster \ {nucleus}, order),
                             [candidate |-> None, context_count |-> nucleus_context_count,
                              nucleus_score |-> Zero],
                             nucleus_context_count, context_roots,
                             nucleus_scores, boilerplate_scores)
    IN IF nucleus # None /\ ~skip_leverage_for_micro
          /\ best.candidate # None
          /\ ~(best.context_count - nucleus_context_count <= 0)
       THEN [leverage_point |-> best.candidate, leverage_context_count |-> best.context_count]
       ELSE [leverage_point |-> None, leverage_context_count |-> 0]

\* Phase 4: the leverage point and its context count, None and 0 when none
LeveragePoint(cluster, nucleus, context_roots, nucleus_scores, boilerplate_scores, order) ==
    LET is_micro_cluster == Cardinality(cluster) <= SMALL_CLUSTER_MAX
        skip_leverage_for_micro == is_micro_cluster /\ nucleus # None
        nucleus_context_count == Cardinality(Get(context_roots, nucleus, {}))
        best == LeverageScan(Iter(cluster \ {nucleus}, order),
                             [candidate |-> None, context_count |-> nucleus_context_count,
                              nucleus_score |-> Zero],
                             nucleus_context_count, context_roots,
                             nucleus_scores, boilerplate_scores)
    IN IF nucleus # None /\ ~skip_leverage_for_micro
          /\ best.candidate # None
          /\ ~(best.context_count - nucleus_context_count <= 1)
       THEN [leverage_point |-> best.candidate, leverage_context_count |-> best.context_count]
       ELSE [leverage_point |-> None, leverage_context_count |-> 0]

\* the returned dict, as far as the report reads it
AnalysisRecord(cluster, boilerplate_scores, found, proto_nucleus, leverage, order) ==
    [nucleus |-> found.nucleus,
     nucleus_score |-> IF found.nucleus # None THEN found.nucleus_score ELSE Zero,
     proto_nucleus |-> proto_nucleus,
     boilerplate_functions |->
         SelectSeq(Iter(cluster, order), LAMBDA fn : IsBoilerplate(boilerplate_scores[fn])),
     leverage_point |-> leverage.leverage_point,
     leverage_context_count |-> leverage.leverage_context_count,
     cluster_state |-> IF found.nucleus # None THEN "nucleus"
                       ELSE IF proto_nucleus # <<>> THEN "proto_nucleus"
                       ELSE "diffuse"]

\* Phases 3 and 4 with the proto-nucleus search run even when a nucleus was found
AnalysisProtoAlways(cluster, context_roots, calls, nucleus_scores, boilerplate_scores, found, order) ==
    AnalysisRecord(cluster, boilerplate_scores, found,
                   detect_proto_nucleus(cluster, nucleus_scores, context_roots,
                                        boilerplate_scores, calls, order),
                   LeveragePoint(cluster, found.nucleus, context_roots, nucleus_scores,
                                 boilerplate_scores, order),
                   order)

\* Phases 3 and 4: the proto-nucleus is searched only when Phase 2 found no
\* nucleus; then the leverage point
AnalysisOfNucleus(cluster, context_roots, calls, nucleus_scores, boilerplate_scores, found, order) ==
    AnalysisRecord(cluster, boilerplate_scores, found,
                   IF found.nucleus = None
                   THEN detect_proto_nucleus(cluster, nucleus_scores, context_roots,
                                             boilerplate_scores, calls, order)
                   ELSE <<>>,
                   LeveragePoint(cluster, found.nucleus, context_roots, nucleus_scores,
                                 boilerplate_scores, order),
                   order)

\* Phase 2 on the scores of Phase 1
AnalysisOfScores(cluster, context_roots, calls, nucleus_scores, boilerplate_scores, order) ==
    AnalysisOfNucleus(cluster, context_roots, calls, nucleus_scores, boilerplate_scores,
                      FindNucleus(Iter(cluster, order), nucleus_scores, None, Zero), order)

\* Phase 1, the nucleus scores, on the boilerplate scores
AnalysisOfBoilerplate(cluster, context_roots, call_graph, calls, callers, veneers, func_scope, boilerplate_scores, order) ==
    AnalysisOfScores(cluster, context_roots, calls,
                     NucleusScores(cluster, calls, callers, context_roots,
                                   boilerplate_scores, veneers, call_graph, func_scope),
                     boilerplate_scores, order)

_analysis_for_cluster(cluster, context_roots, call_graph, calls, callers, veneers, func_scope, order) ==
    AnalysisOfBoilerplate(cluster, context_roots, call_graph, calls, callers, veneers,
                          func_scope, BoilerplateScores(cluster, calls), order)

\* round(x, 3) of a non-negative score, ties to even
Round3(x) ==
    LET scaled == QMul(x, QInt(1000))
        lo == scaled.n \div scaled.d
        twice == QSub(QMul(scaled, QInt(2)), QInt(2 * lo))
    IN IF QLt(twice, One) THEN Q(lo, 1000)
       ELSE IF QGt(twice, One) THEN Q(lo + 1, 1000)
       ELSE Q(IF lo % 2 = 0 THEN lo ELSE lo + 1, 1000)

(***************************************************************************)
(* The result loop of analyze(): type and ownership of a cluster           *)
(***************************************************************************)
\* degree: the members with a neighbour inside the cluster, each with the
\* number of such neighbours (a Counter holds no key it never counted)
Degree(cluster, adjacency) ==
    [a \in {x \in cluster : Get(adjacency, x, {}) \cap cluster # {}} |->
        Cardinality(Get(adjacency, a, {}) \cap cluster)]

RECURSIVE FirstLargest(_, _, _)
\* max(seq, key=...) and Counter.most_common(1): the first of the largest
FirstLargest(seq, key, best) ==
    IF seq = <<>> THEN best
    ELSE FirstLargest(Tail(seq), key, IF key[seq[1]] > key[best] THEN seq[1] ELSE best)

\* the first member of the cluster, whatever its degree
CentralFirstMember(cluster, degree, fanout, order) == Iter(cluster, order)[1]

\* central: the member of the highest degree; without internal edges the
\* member with the most calls
Central(cluster, degree, fanout, order) ==
    IF DOMAIN degree # {}
    THEN LET counted == Iter(DOMAIN degree, order)
         IN FirstLargest(Tail(counted), degree, counted[1])
    ELSE LET members == Iter(cluster, order)
         IN FirstLargest(Tail(members), [f \in cluster |-> Get(fanout, f, 0)], members[1])

RECURSIVE LargestOf(_, _)
\* max(values), 0 for none
LargestOf(S, best) ==
    IF S = {} THEN best
    ELSE LET x == CHOOSE y \in S : TRUE
         IN LargestOf(S \ {x}, IF x > best THEN x ELSE best)

hub_strength(cluster, degree, fanout, order) ==
    IF DOMAIN degree # {}
    THEN Q(Get(degree, Central(cluster, degree, fanout, order), 0),
           Max2(1, LargestOf({degree[a] : a \in DOMAIN degree}, 0)))
    ELSE One

HUB_STRENGTH_MIN == Q(4, 10)

symmetric_small(cluster, fanout) ==
    /\ Cardinality(cluster) <= SMALL_CLUSTER_MAX
    /\ LargestOf({Get(fanout, f, 0) : f \in cluster}, 0) <= 2

cluster_type(cluster, degree, fanout, order) ==
    IF symmetric_small(cluster, fanout) THEN "Primitive"
    ELSE IF QGe(hub_strength(cluster, degree, fanout, order), HUB_STRENGTH_MIN) THEN "Algorithm"
    ELSE "Model"

RECURSIVE LocSum(_, _)
LocSum(S, func_loc) ==
    IF S = {} THEN 0
    ELSE LET f == CHOOSE g \in S : TRUE
         IN Get(func_loc, f, 0) + LocSum(S \ {f}, func_loc)

\* by_file: the lines of the cluster's members per file, a file with a
\* member of 0 lines included
ByFile(cluster, func_loc, func_file) ==
    [file \in {func_file[f] : f \in cluster} |->
        LocSum({f \in cluster : func_file[f] = file}, func_loc)]

DOMINANT_SHARE_MIN == Q(67, 100)

\* ownership: the one file, else the file with the most lines (the first of
\* them in the order the members come in) if it holds 67% of the lines
Ownership(cluster, func_loc, func_file, order) ==
    LET by_file == ByFile(cluster, func_loc, func_file)
        total_loc == LocSum(cluster, func_loc)
        files == [i \in 1..Len(Iter(cluster, order)) |-> func_file[Iter(cluster, order)[i]]]
        dom_file == FirstLargest(Tail(files), by_file, files[1])
    IN IF Cardinality(DOMAIN by_file) = 1
       THEN <<"InternalComponent", CHOOSE file \in DOMAIN by_file : TRUE>>
       ELSE IF QGe(Q(by_file[dom_file], Max2(1, total_loc)), DOMINANT_SHARE_MIN)
       THEN <<"InternalComponent", dom_file>>
       ELSE <<"RecommendNewModule", "<unassigned>">>

(***************************************************************************)
(* State of one run of analyze()                                           *)
(***************************************************************************)
VARIABLES
    functions,          \* the registry: qualified names of the project's functions
    call_graph,         \* supplementary call graph, EmptyDict when absent
    order,              \* iteration order of the name sets in this run
    pc,                 \* position in analyze()
    cursor,             \* index of the cluster the current loop is at
    all_edges,          \* weighted edges (a, b, c) with c >= MIN_EDGE
    adj,                \* adjacency used for clustering
    callers,            \* callers handed to scoring
    raw_clusters,       \* Phase A result, a sequence of sets
    valid_clusters,     \* clusters that passed the gates
    rejected_clusters,  \* rejection records
    all_scores,         \* diagnostics: cluster -> scores the gate computed
    results,            \* reported clusters
    scored              \* a direct call of a scoring function: its inputs and its value

vars == <<functions, call_graph, order, pc, cursor, all_edges, adj, callers,
          raw_clusters, valid_clusters, rejected_clusters, all_scores, results, scored>>

\* bounds of the explored projects
MaxFunctions == 5

\* no scoring function has been called directly
NoScore == [kind |-> "none"]

\* the per-function dicts analyze() fills from the parse results
calls == [fn \in functions |-> Body[fn].calls]
idents == [fn \in functions |-> Body[fn].idents]
context_roots == [fn \in functions |-> Body[fn].roots]
func_loc == [fn \in functions |-> Body[fn].loc]
func_scope == [fn \in functions |-> Body[fn].scope]
fanout == [fn \in functions |-> Cardinality(Get(calls, fn, {}))]

\* f.name of the file a function was parsed from: the module name is f.stem
FileOf(fn) == FirstSegment(FirstSegment(fn, "."), ":") \o ".lua"

func_file == [fn \in functions |-> FileOf(fn)]

veneers == Veneers(functions, calls, func_loc, func_scope)
utilities == Utilities(functions, call_graph)
structural_functions == functions \ utilities

\* one caller of two callees that call nothing
\* what a project of two files has of timeline.lua and of browser.lua
TimelineSides ==
    {{"timeline.refresh_rows", "timeline:draw_rows"},
     {"timeline.refresh_rows", "timeline:draw_rows", "timeline.scroll_to"}}

BrowserSides ==
    {{"browser.activate_selection", "browser:update_selection_state"},
     {"browser.activate_selection", "browser:update_selection_state",
      "browser:collect_items"},
     {"browser.activate_selection", "browser:collect_items"}}

ScenarioProjects ==
    {{A, "browser:load_tree_data", "browser:draw_tree_cells"} :
        A \in {"browser.refresh_all_visible_rows", "browser.process_all_visible_rows"}}
    \cup {P \in {T \cup B : T \in TimelineSides, B \in BrowserSides} :
             Cardinality(P) <= MaxFunctions}

Projects ==
    {S \in SUBSET Names : Cardinality(S) >= 2 /\ Cardinality(S) <= MaxFunctions}
        \cup ScenarioProjects

\* functions whose body calls itself: parse_lua drops the self-call, the
\* call-graph builder keeps it
RecursiveFns == {"browser:collect_items"}

\* a supplementary call graph for project S, as build_call_graph writes it
CallGraphOf(S) ==
    [fn \in S |->
        [files_calling |-> Body[fn].files_calling,
         is_utility |-> Body[fn].is_utility,
         callers |-> {c \in S : fn \in Body[c].calls} \cup ({fn} \cap RecursiveFns)]]

CallGraphs(S) == {EmptyDict, CallGraphOf(S)}

Ascending(S) == SelectSeq([i \in DOMAIN Bodies |-> Bodies[i].name], LAMBDA n : n \in S)

Reverse(seq) == [i \in 1..Len(seq) |-> seq[Len(seq) + 1 - i]]

\* the iteration orders explored for the names of S
Orders(S) == {Ascending(S), Reverse(Ascending(S))}

Init ==
    /\ functions \in Projects
    /\ call_graph \in CallGraphs(functions)
    /\ order \in Orders(functions)
    /\ pc = "discover"
    /\ cursor = 0
    /\ all_edges = <<>>
    /\ adj = EmptyDict
    /\ callers = EmptyDict
    /\ raw_clusters = <<>>
    /\ valid_clusters = <<>>
    /\ rejected_clusters = <<>>
    /\ all_scores = EmptyDict
    /\ results = <<>>
    /\ scored = NoScore

\* Phase A: edges, adjacency, callers, connected components
Discover ==
    /\ pc = "discover"
    /\ all_edges' = AllEdges(structural_functions, calls, idents, context_roots, fanout, order)
    /\ adj' = Adjacency(structural_functions, calls, idents, context_roots, fanout, order)
    /\ callers' = CallersFor(structural_functions, calls, call_graph)
    /\ raw_clusters' = find_connected_components(structural_functions, adj', order)
    /\ pc' = "validate"
    /\ cursor' = 1
    /\ UNCHANGED <<functions, call_graph, order, valid_clusters, rejected_clusters,
                   all_scores, results, scored>>

\* the diagnostics entry of a cluster
RecordScores(cluster, nucleus_scores, boilerplate_scores) ==
    all_scores' = [c \in DOMAIN all_scores \cup {cluster} |->
                      IF c = cluster
                      THEN [nucleus_scores |-> nucleus_scores,
                            boilerplate_scores |-> boilerplate_scores]
                      ELSE all_scores[c]]

\* the end of an iteration with the `continue` after a rejection forgotten:
\* the cluster is recorded as rejected and falls through to the accepted list
RecordVerdictFallsThrough(cluster, verdict) ==
    IF verdict.reason = "accepted"
    THEN /\ valid_clusters' = Append(valid_clusters, cluster)
         /\ UNCHANGED rejected_clusters
    ELSE /\ rejected_clusters' = Append(rejected_clusters, verdict)
         /\ valid_clusters' = Append(valid_clusters, cluster)

\* the end of an iteration: a rejected cluster is appended to the rejected
\* list and the loop continues; a cluster no gate matched is appended to the
\* valid list
RecordVerdict(cluster, verdict) ==
    IF verdict.reason = "accepted"
    THEN /\ valid_clusters' = Append(valid_clusters, cluster)
         /\ UNCHANGED rejected_clusters
    ELSE /\ rejected_clusters' = Append(rejected_clusters, verdict)
         /\ UNCHANGED valid_clusters

\* the stop conditions on the scores of a cluster
JudgeScored(cluster, nucleus_scores, boilerplate_scores) ==
    /\ RecordScores(cluster, nucleus_scores, boilerplate_scores)
    /\ RecordVerdict(cluster, GateVerdict(cluster, nucleus_scores, boilerplate_scores, order))

\* the nucleus scores of a cluster on its boilerplate scores
ScoreAndJudge(cluster, boilerplate_scores) ==
    JudgeScored(cluster,
                NucleusScores(cluster, calls, callers, context_roots,
                              boilerplate_scores, veneers, call_graph, func_scope),
                boilerplate_scores)

\* one iteration of the loop of validate_and_split_clusters
ValidateCluster ==
    /\ pc = "validate"
    /\ cursor <= Len(raw_clusters)
    /\ ScoreAndJudge(raw_clusters[cursor], BoilerplateScores(raw_clusters[cursor], calls))
    /\ cursor' = cursor + 1
    /\ UNCHANGED <<functions, call_graph, order, pc, all_edges, adj, callers,
                   raw_clusters, results, scored>>

\* validate_and_split_clusters returns; the report loop starts
ValidateReturn ==
    /\ pc = "validate"
    /\ cursor > Len(raw_clusters)
    /\ pc' = "report"
    /\ cursor' = 1
    /\ UNCHANGED <<functions, call_graph, order, all_edges, adj, callers, raw_clusters,
                   valid_clusters, rejected_clusters, all_scores, results, scored>>

\* sorted(clusters, key=len, reverse=True)
RECURSIVE BySizeDesc(_)
BySizeDesc(seq) ==
    IF seq = <<>> THEN <<>>
    ELSE LET i == CHOOSE k \in 1..Len(seq) :
                     /\ \A j \in 1..Len(seq) : Cardinality(seq[j]) <= Cardinality(seq[k])
                     /\ \A j \in 1..(k - 1) : Cardinality(seq[j]) < Cardinality(seq[k])
         IN <<seq[i]>> \o BySizeDesc(SubSeq(seq, 1, i - 1) \o SubSeq(seq, i + 1, Len(seq)))

\* results.append(...); hub_strength, a local of the loop, is kept beside the
\* type it decides
AppendResult(cluster, analysis) ==
    results' = Append(results,
                  [id |-> cursor,
                   type |-> cluster_type(cluster, Degree(cluster, adj), fanout, order),
                   hub_strength |-> hub_strength(cluster, Degree(cluster, adj), fanout, order),
                   ownership |-> Ownership(cluster, func_loc, func_file, order),
                   files |-> DOMAIN ByFile(cluster, func_loc, func_file),
                   functions |-> cluster,
                   analysis |-> [analysis EXCEPT
                                    !.nucleus_score = Round3(analysis.nucleus_score)]])

\* the analysis of the cluster the result loop is at
ReportOf(cluster) ==
    AppendResult(cluster,
                 _analysis_for_cluster(cluster, context_roots, call_graph, calls,
                                       callers, veneers, func_scope, order))

\* one iteration of the result loop of analyze()
ReportCluster ==
    /\ pc = "report"
    /\ cursor <= Len(valid_clusters)
    /\ ReportOf(BySizeDesc(valid_clusters)[cursor])
    /\ cursor' = cursor + 1
    /\ UNCHANGED <<functions, call_graph, order, pc, all_edges, adj, callers,
                   raw_clusters, valid_clusters, rejected_clusters, all_scores, scored>>

\* analyze() returns results and diagnostics
Return ==
    /\ pc = "report"
    /\ cursor > Len(valid_clusters)
    /\ pc' = "done"
    /\ UNCHANGED <<functions, call_graph, order, cursor, all_edges, adj, callers,
                   raw_clusters, valid_clusters, rejected_clusters, all_scores, results, scored>>

Next == Discover \/ ValidateCluster \/ ValidateReturn \/ ReportCluster \/ Return

Spec == Init /\ [][Next]_vars

(***************************************************************************)
(* Direct calls of the three scoring functions.  analyze() always passes   *)
(* them the same shape of arguments (no LOC dict, callers computed from    *)
(* the calls); here they get the other shapes their signatures admit: LOC  *)
(* given, callers given by hand, the optional dicts absent, a body calling *)
(* more than FANOUT_HIGH_WATERMARK functions.                              *)
(***************************************************************************)
MaxScoredCluster == 2

ScoredClusters ==
    {S \in SUBSET Names : Cardinality(S) >= 1 /\ Cardinality(S) <= MaxScoredCluster}

\* the callees of a body that calls many functions
ManyCallees ==
    QtCallees \cup {"browser:update_selection_state", "browser:collect_items",
                    "browser:helper", "browser:is_ready", "browser:set_ready",
                    "browser:print"}

ScoredCalls(S, many) ==
    [fn \in S |-> IF many THEN (Body[fn].calls \cup ManyCallees) \ {fn} ELSE Body[fn].calls]

\* func_loc: absent, or the LOC of fn
FuncLocs(fn) == {EmptyDict} \cup {[f \in {fn} |-> loc] : loc \in {0, 1, 5, 40}}

\* callers of fn as calculate_boilerplate_score may get them: absent, or any
\* mix of callers inside and outside fn's module
BoilerplateCallers(fn) ==
    {EmptyDict} \cup
    {[f \in {fn} |-> cs] : cs \in SUBSET {"timeline:refresh", "inspector.show", "browser:helper"}}

\* callers as calculate_nucleus_score may get them: absent, computed from the
\* calls, or every member (itself included) calling every member
NucleusCallers(S, call_dict) ==
    {EmptyDict, CallersFor(S, call_dict, EmptyDict), [f \in S |-> S]}

InitScore ==
    /\ functions = {}
    /\ call_graph = EmptyDict
    /\ order = <<>>
    /\ pc = "score"
    /\ cursor = 0
    /\ all_edges = <<>>
    /\ adj = EmptyDict
    /\ callers = EmptyDict
    /\ raw_clusters = <<>>
    /\ valid_clusters = <<>>
    /\ rejected_clusters = <<>>
    /\ all_scores = EmptyDict
    /\ results = <<>>
    /\ scored = NoScore

ScoreBoilerplate ==
    /\ pc = "score"
    /\ \E fn \in Names, many \in BOOLEAN :
       \E loc_dict \in FuncLocs(fn), caller_dict \in BoilerplateCallers(fn) :
          scored' = [kind |-> "boilerplate", fn_name |-> fn, cluster |-> {fn},
                     calls |-> ScoredCalls({fn}, many)[fn],
                     func_loc |-> loc_dict, callers |-> caller_dict,
                     value |-> calculate_boilerplate_score(fn, ScoredCalls({fn}, many),
                                                           loc_dict, caller_dict)]
    /\ pc' = "scored"
    /\ UNCHANGED <<functions, call_graph, order, cursor, all_edges, adj, callers,
                   raw_clusters, valid_clusters, rejected_clusters, all_scores, results>>

ScoreNucleus ==
    /\ pc = "score"
    /\ \E cluster \in ScoredClusters, many \in BOOLEAN, with_scores \in BOOLEAN,
          with_graph \in BOOLEAN :
       \E fn \in cluster, caller_dict \in NucleusCallers(cluster, ScoredCalls(cluster, many)) :
          LET call_dict == ScoredCalls(cluster, many)
              boilerplate_scores ==
                  IF with_scores THEN BoilerplateScores(cluster, call_dict) ELSE EmptyDict
              graph == IF with_graph THEN CallGraphOf(cluster) ELSE EmptyDict
              scope == IF with_graph THEN [f \in cluster |-> Body[f].scope] ELSE EmptyDict
              thin == IF with_graph
                      THEN Veneers(cluster, call_dict, [f \in cluster |-> Body[f].loc], scope)
                      ELSE {}
          IN scored' = [kind |-> "nucleus", fn_name |-> fn, cluster |-> cluster,
                        calls |-> call_dict[fn],
                        func_loc |-> EmptyDict, callers |-> caller_dict,
                        boilerplate_scores |-> boilerplate_scores, veneers |-> thin,
                        call_graph |-> graph, func_scope |-> scope,
                        value |-> calculate_nucleus_score(
                                      fn, cluster, call_dict, caller_dict,
                                      [f \in cluster |-> Body[f].roots],
                                      boilerplate_scores, thin, graph, scope)]
    /\ pc' = "scored"
    /\ UNCHANGED <<functions, call_graph, order, cursor, all_edges, adj, callers,
                   raw_clusters, valid_clusters, rejected_clusters, all_scores, results>>

ScoreCoupling ==
    /\ pc = "score"
    /\ \E a \in Names, many \in BOOLEAN, with_roots \in BOOLEAN :
       \E b \in Names \ {a} :
          LET call_dict == ScoredCalls({a, b}, many)
              root_dict == IF with_roots THEN [f \in {a, b} |-> Body[f].roots] ELSE EmptyDict
          IN scored' = [kind |-> "coupling", fn_name |-> a, other |-> b,
                        cluster |-> {a, b}, calls |-> call_dict[a],
                        func_loc |-> EmptyDict, callers |-> EmptyDict,
                        call_dict |-> call_dict,
                        idents |-> [f \in {a, b} |-> Body[f].idents],
                        context_roots |-> root_dict,
                        value |-> coupling(a, b, call_dict,
                                           [f \in {a, b} |-> Body[f].idents],
                                           root_dict,
                                           [f \in {a, b} |-> Cardinality(call_dict[f])])]
    /\ pc' = "scored"
    /\ UNCHANGED <<functions, call_graph, order, cursor, all_edges, adj, callers,
                   raw_clusters, valid_clusters, rejected_clusters, all_scores, results>>

NextScore == ScoreBoilerplate \/ ScoreNucleus \/ ScoreCoupling

SpecScore == InitScore /\ [][NextScore]_vars

(***************************************************************************)
(* Direct calls of the detectors that work on the scores of one cluster.   *)
(* The pipeline only calls them on accepted clusters; their signatures     *)
(* admit any score dicts.                                                  *)
(***************************************************************************)
MaxDetectCluster == 3

\* functions with and without shared roots, direct calls and shared callees
DetectNames ==
    {"browser.activate_selection", "browser:collect_items", "browser:helper",
     "browser.open_item"}

DetectClusters ==
    {S \in SUBSET DetectNames : Cardinality(S) >= 2 /\ Cardinality(S) <= MaxDetectCluster}

\* nucleus scores below, at and inside the candidate band, and at its upper end
DetectScores == {Q(39, 100), Q(40, 100), Q(44, 100), Q(50, 100), Q(55, 100)}

\* calls as parsed, or with every member also calling every other member
DetectCalls(S, mutual) ==
    [fn \in S |-> IF mutual THEN Body[fn].calls \cup (S \ {fn}) ELSE Body[fn].calls]

DetectProto ==
    /\ pc = "score"
    /\ \E cluster \in DetectClusters, mutual \in BOOLEAN :
       \E nucleus_scores \in [cluster -> DetectScores],
          boilerplate_scores \in [cluster -> {Zero, BOILERPLATE_LIMIT}],
          iteration \in Orders(cluster) :
          scored' = [kind |-> "proto", cluster |-> cluster,
                     nucleus_scores |-> nucleus_scores,
                     boilerplate_scores |-> boilerplate_scores,
                     context_roots |-> [f \in cluster |-> Body[f].roots],
                     calls |-> DetectCalls(cluster, mutual),
                     value |-> detect_proto_nucleus(
                                   cluster, nucleus_scores,
                                   [f \in cluster |-> Body[f].roots],
                                   boilerplate_scores, DetectCalls(cluster, mutual),
                                   iteration)]
    /\ pc' = "scored"
    /\ UNCHANGED <<functions, call_graph, order, cursor, all_edges, adj, callers,
                   raw_clusters, valid_clusters, rejected_clusters, all_scores, results>>

NextDetect == DetectProto

SpecDetect == InitScore /\ [][NextDetect]_vars

\* the pairs of a cluster, each once
DetectPairs(cluster) ==
    {<<Ascending(cluster)[i], Ascending(cluster)[j]>> :
        i \in 1..Cardinality(cluster), j \in 1..Cardinality(cluster)} \cap
    {p \in cluster \X cluster : Pos(p[1], Ascending(cluster)) < Pos(p[2], Ascending(cluster))}

DetectStrengths == {Q(25, 100), Q(40, 100), Q(90, 100)}

\* internal edges as _cluster_internal_edges returns them: every pair at
\* most once, strongest first
DetectEdges(cluster) ==
    {edges \in UNION {[1..k -> {<<p[1], p[2], s>> : p \in DetectPairs(cluster),
                                                     s \in DetectStrengths}] :
                         k \in 1..Cardinality(DetectPairs(cluster))} :
        /\ \A i \in DOMAIN edges : \A j \in DOMAIN edges :
              i < j => /\ <<edges[i][1], edges[i][2]>> # <<edges[j][1], edges[j][2]>>
                       /\ QGe(edges[i][3], edges[j][3])}

FindInappropriate ==
    /\ pc = "score"
    /\ \E cluster \in DetectClusters :
       \E internal_edges \in DetectEdges(cluster),
          nucleus_scores \in [cluster -> {Q(50, 100), SHARED_NUCLEUS_MIN}],
          boilerplate_scores \in [cluster -> {Zero, BOILERPLATE_LIMIT}] :
          scored' = [kind |-> "inappropriate", cluster |-> cluster,
                     internal_edges |-> internal_edges,
                     nucleus_scores |-> nucleus_scores,
                     boilerplate_scores |-> boilerplate_scores,
                     context_roots |-> [f \in cluster |-> Body[f].roots],
                     value |-> find_inappropriate_connections(
                                   cluster, internal_edges, nucleus_scores,
                                   [f \in cluster |-> Body[f].roots], boilerplate_scores)]
    /\ pc' = "scored"
    /\ UNCHANGED <<functions, call_graph, order, cursor, all_edges, adj, callers,
                   raw_clusters, valid_clusters, rejected_clusters, all_scores, results>>

NextEdges == FindInappropriate

SpecEdges == InitScore /\ [][NextEdges]_vars

(***************************************************************************)
(* build_call_graph: the whole-project registry global_functions, its      *)
(* reverse index, its metrics and its utility flags (Phases 2 to 4).  The  *)
(* registry is kept in call_graph, the artifact analyze() later consumes.  *)
(***************************************************************************)
MaxGraphFunctions == 6

\* qualified names; the module is the file the function is defined in
GraphNames ==
    {"utils.log", "utils.format", "browser.open", "browser.close",
     "timeline.refresh", "timeline.seek", "inspector.show"}

GraphFile(fn) == FirstSegment(fn, ".") \o ".lua"

\* the callee sets a body can have: none, one hub, three hubs and a name
\* that is no function of any file
GraphCallees ==
    {{}, {"utils.log"}, {"utils.log", "utils.format", "browser.open", "print"}}

GraphProjects == {S \in SUBSET GraphNames : Cardinality(S) <= MaxGraphFunctions}

\* Phase 1 result: one record per function, reverse index and metrics unset
GraphRegistries(S) ==
    {[fn \in S |-> [file |-> GraphFile(fn), calls |-> callees[fn], callers |-> {},
                    fanin |-> 0, files_calling |-> 0, is_utility |-> FALSE]] :
        callees \in [S -> GraphCallees]}

RECURSIVE FaninSum(_, _)
\* sum(fanins)
FaninSum(names, global_functions) ==
    IF names = {} THEN 0
    ELSE LET fn == CHOOSE n \in names : TRUE
         IN global_functions[fn].fanin + FaninSum(names \ {fn}, global_functions)

\* the classification with the two criteria of the first rule joined by "or"
IdentifyUtilitiesEitherCriterion(global_functions) ==
    {fn \in DOMAIN global_functions :
        global_functions[fn].fanin >= 5 \/ global_functions[fn].files_calling >= 3}

identify_utilities(global_functions) ==
    IF DOMAIN global_functions = {} THEN {}
    ELSE LET avg_fanin == Q(FaninSum(DOMAIN global_functions, global_functions),
                            Cardinality(DOMAIN global_functions))
         IN {fn \in DOMAIN global_functions :
                LET fanin == global_functions[fn].fanin
                    files_calling == global_functions[fn].files_calling
                    is_high_fanin == fanin >= 5
                    is_multi_file == files_calling >= 3
                    is_extreme_outlier == /\ QGt(Q(fanin, 1), QMul(Q(3, 1), avg_fanin))
                                          /\ files_calling >= 2
                IN (is_high_fanin /\ is_multi_file) \/ is_extreme_outlier}

InitGraph ==
    /\ functions \in GraphProjects
    /\ call_graph \in GraphRegistries(functions)
    /\ order = <<>>
    /\ pc = "callers"
    /\ cursor = 0
    /\ all_edges = <<>>
    /\ adj = EmptyDict
    /\ callers = EmptyDict
    /\ raw_clusters = <<>>
    /\ valid_clusters = <<>>
    /\ rejected_clusters = <<>>
    /\ all_scores = EmptyDict
    /\ results = <<>>
    /\ scored = NoScore

\* Phase 2: the reverse index
BuildCallers ==
    /\ pc = "callers"
    /\ call_graph' =
          [fn \in DOMAIN call_graph |->
              [call_graph[fn] EXCEPT
                  !.callers = {c \in DOMAIN call_graph : fn \in call_graph[c].calls}]]
    /\ pc' = "metrics"
    /\ UNCHANGED <<functions, order, cursor, all_edges, adj, callers, raw_clusters,
                   valid_clusters, rejected_clusters, all_scores, results, scored>>

\* Phase 3: fan-in and the number of files the callers are defined in
CalculateMetrics ==
    /\ pc = "metrics"
    /\ call_graph' =
          [fn \in DOMAIN call_graph |->
              [call_graph[fn] EXCEPT
                  !.fanin = Cardinality(call_graph[fn].callers),
                  !.files_calling =
                      Cardinality({call_graph[c].file :
                                      c \in call_graph[fn].callers \cap DOMAIN call_graph})]]
    /\ pc' = "utilities"
    /\ UNCHANGED <<functions, order, cursor, all_edges, adj, callers, raw_clusters,
                   valid_clusters, rejected_clusters, all_scores, results, scored>>

\* Phase 4: the utility flags
IdentifyUtilities ==
    /\ pc = "utilities"
    /\ call_graph' =
          [fn \in DOMAIN call_graph |->
              [call_graph[fn] EXCEPT
                  !.is_utility = fn \in identify_utilities(call_graph)]]
    /\ scored' = [kind |-> "utilities", value |-> identify_utilities(call_graph)]
    /\ pc' = "built"
    /\ UNCHANGED <<functions, order, cursor, all_edges, adj, callers, raw_clusters,
                   valid_clusters, rejected_clusters, all_scores, results>>

NextGraph == BuildCallers \/ CalculateMetrics \/ IdentifyUtilities

SpecGraph == InitGraph /\ [][NextGraph]_vars

(***************************************************************************)
(* parse_lua on one function.  The source is kept as what the regular      *)
(* expressions see: the definition line "function NAME(" and body lines    *)
(* that are a call "CALLEE(", a field access "ROOT.FIELD" or a guard       *)
(* "if IDENT then".                                                        *)
(***************************************************************************)
MaxBodyLines == 2

\* the text before the first '.' or ':' (what CONTEXT_ROOT_RE captures)
FirstPart(s) == FirstSegment(FirstSegment(s, "."), ":")

\* the identifier that stands directly before '('
LastPart(s) == LastSegment(LastSegment(s, "."), ":")

HasSeparator(s) == Contains(s, ".") \/ Contains(s, ":")

guard_prefixes ==
    {"is_", "has_", "should_", "can_", "enabled", "disabled", "loading", "restoring",
     "pending"}

provider_keywords ==
    {"context", "state", "get_", "fetch_", "load_", "find_", "selected", "current"}

generic_names == {"i", "j", "k", "v", "x", "y", "n"}

\* text: the lines the function is made of, the definition line included
extract_context_roots(text) ==
    {FirstPart(text[i].name) : i \in {k \in DOMAIN text : HasSeparator(text[k].name)}}
    \cup {text[i].name : i \in {k \in DOMAIN text :
                /\ text[k].kind = "guard"
                /\ text[k].name \notin STOPWORDS \cup generic_names
                /\ AnyIn(guard_prefixes, text[k].name)}}
    \cup {LastPart(text[i].name) : i \in {k \in DOMAIN text :
                /\ text[k].kind \in {"def", "call"}
                /\ AnyIn(provider_keywords, LastPart(text[k].name))
                /\ LastPart(text[k].name) \notin STOPWORDS}}

\* the calls found in the body without its definition line, self-calls dropped
ExtractCalls(name, body) ==
    {body[i].name : i \in {k \in DOMAIN body : body[k].kind = "call"}} \ {name}

ParseNames == {"load_items", "count_down", "M.get_state", "is_ready", "M:select_current"}

BodyLines(name) ==
    {[kind |-> "call", name |-> name], [kind |-> "call", name |-> "helper"],
     [kind |-> "call", name |-> "M.get_state"],
     [kind |-> "access", name |-> "browser_state.items"],
     [kind |-> "guard", name |-> "is_loading"], [kind |-> "guard", name |-> "is_ready"]}

FunctionBodies(name) == UNION {[1..k -> BodyLines(name)] : k \in 0..MaxBodyLines}

InitParse ==
    /\ functions = {}
    /\ call_graph = EmptyDict
    /\ order = <<>>
    /\ pc = "parse"
    /\ cursor = 0
    /\ all_edges = <<>>
    /\ adj = EmptyDict
    /\ callers = EmptyDict
    /\ raw_clusters = <<>>
    /\ valid_clusters = <<>>
    /\ rejected_clusters = <<>>
    /\ all_scores = EmptyDict
    /\ results = <<>>
    /\ \E name \in ParseNames : \E body \in FunctionBodies(name) :
          scored = [kind |-> "source", name |-> name, body |-> body]

\* the per-function part of parse_lua: roots from the full body, calls from
\* the body without the definition line
ParseFunction ==
    /\ pc = "parse"
    /\ scored' = [kind |-> "parsed", name |-> scored.name, body |-> scored.body,
                  roots |-> extract_context_roots(
                                <<[kind |-> "def", name |-> scored.name]>> \o scored.body),
                  calls |-> ExtractCalls(scored.name, scored.body)]
    /\ pc' = "parsed"
    /\ UNCHANGED <<functions, call_graph, order, cursor, all_edges, adj, callers,
                   raw_clusters, valid_clusters, rejected_clusters, all_scores, results>>

NextParse == ParseFunction

SpecParse == InitParse /\ [][NextParse]_vars

(***************************************************************************)
(* Properties                                                              *)
(***************************************************************************)
\* C1: in every candidate cluster a member whose boilerplate score is at
\* least 0.6 has nucleus score exactly 0, is in no proto-nucleus detected from
\* the cluster's scores, and is neither the nucleus nor a proto-nucleus member
\* of a reported cluster.
C1_BoilerplateNeverNucleus ==
    /\ \A c \in DOMAIN all_scores : \A fn \in c :
          IsBoilerplate(all_scores[c].boilerplate_scores[fn]) =>
             /\ all_scores[c].nucleus_scores[fn] = Zero
             /\ fn \notin Range(detect_proto_nucleus(
                                    c, all_scores[c].nucleus_scores, context_roots,
                                    all_scores[c].boilerplate_scores, calls, order))
    /\ \A i \in DOMAIN results : \A fn \in results[i].functions :
          IsBoilerplate(calculate_boilerplate_score(fn, calls, EmptyDict, EmptyDict)) =>
             /\ results[i].analysis.nucleus # fn
             /\ fn \notin Range(results[i].analysis.proto_nucleus)

\* a reported cluster that has a nucleus and a boilerplate-heavy member
C1_Witness ==
    \E i \in DOMAIN results :
       /\ results[i].analysis.nucleus # None
       /\ \E fn \in results[i].functions :
             /\ IsBoilerplate(all_scores[results[i].functions].boilerplate_scores[fn])
             /\ all_scores[results[i].functions].nucleus_scores[fn] = Zero

InUnitInterval(x) == QLe(Zero, x) /\ QLe(x, One)

\* C2: whatever a scoring function is given (any fan-out, LOC present or
\* absent, any name, any callers and callees, any cluster), the boilerplate
\* score, the nucleus score and the coupling weight it returns lie in [0, 1].
C2_ScoresInUnitInterval ==
    scored.kind \in {"boilerplate", "nucleus", "coupling"} => InUnitInterval(scored.value)

\* a nucleus score of a function that is among its own callers and whose
\* weighted signal reaches the upper end of the interval
C2_Witness ==
    /\ scored.kind = "nucleus"
    /\ scored.fn_name \in Get(scored.callers, scored.fn_name, {})
    /\ scored.value = One

\* the clusters the validation loop has been through
Processed ==
    {raw_clusters[i] : i \in 1..(IF pc = "validate" THEN cursor - 1 ELSE Len(raw_clusters))}

Accepted == Range(valid_clusters)

Rejected == {rejected_clusters[i].cluster : i \in DOMAIN rejected_clusters}

Reported == {results[i].functions : i \in DOMAIN results}

RejectionReasons == {"boilerplate_dominated", "no_nucleus", "competing_nuclei"}

\* the functions whose qualified name contains a lifecycle, registration or
\* wiring pattern
LifecycleNamed ==
    {n \in Names :
        AnyIn({"init", "setup", "register", "callback", "notify", "is_", "set_", "get_",
               "teardown", "destroy", "cleanup"}, Lower(n))}

\* C3: every raw cluster the validation loop has been through is in exactly
\* one of the accepted and the rejected lists, once; only accepted clusters
\* are reported, so a rejected cluster has no nucleus and no leverage point
\* reported; it is in the diagnostics with its rejection reason.
C3_AcceptedOrRejected ==
    /\ \A c \in Processed :
          Cardinality({i \in DOMAIN valid_clusters : valid_clusters[i] = c})
          + Cardinality({i \in DOMAIN rejected_clusters : rejected_clusters[i].cluster = c}) = 1
    /\ Accepted \cup Rejected \subseteq Processed
    /\ Reported \subseteq Accepted
    /\ Reported \cap Rejected = {}
    /\ \A i \in DOMAIN rejected_clusters : rejected_clusters[i].reason \in RejectionReasons

\* a finished run that rejected one cluster as boilerplate_dominated and
\* reported another
C3_Witness ==
    /\ pc = "done"
    /\ results # <<>>
    /\ \E i \in DOMAIN rejected_clusters :
          /\ rejected_clusters[i].reason = "boilerplate_dominated"
          /\ rejected_clusters[i].cluster \notin Reported

\* C4: a rejected cluster carries one reason, that of the first gate that
\* matches in the order boilerplate_dominated, no_nucleus, competing_nuclei:
\* boilerplate_dominated whenever gate 1 matches, no_nucleus only when gate 1
\* does not, competing_nuclei only when neither gate 1 nor gate 2 does.
C4_FirstMatchingGate ==
    \A i \in DOMAIN rejected_clusters :
       LET r == rejected_clusters[i]
           nucleus_scores == all_scores[r.cluster].nucleus_scores
           boilerplate_scores == all_scores[r.cluster].boilerplate_scores
           gate1 == \/ ModeA(r.cluster, nucleus_scores, boilerplate_scores, order)
                    \/ ModeB(r.cluster)
           gate2 == \A fn \in r.cluster : QLt(nucleus_scores[fn], NUCLEUS_THRESHOLD)
           gate3 == /\ Cardinality(Nuclei(r.cluster, nucleus_scores)) > 1
                    /\ Cardinality(Competing(r.cluster, nucleus_scores)) > 1
       IN /\ r.reason \in RejectionReasons
          /\ (r.reason = "boilerplate_dominated") <=> gate1
          /\ (r.reason = "no_nucleus") <=> (~gate1 /\ gate2)
          /\ (r.reason = "competing_nuclei") <=> (~gate1 /\ ~gate2 /\ gate3)
          /\ \A j \in DOMAIN rejected_clusters : rejected_clusters[j].cluster = r.cluster => j = i

\* a cluster rejected as boilerplate_dominated in which no member reaches
\* the nucleus threshold, so that gate 2 matches as well
C4_Witness ==
    \E i \in DOMAIN rejected_clusters :
       /\ rejected_clusters[i].reason = "boilerplate_dominated"
       /\ Nuclei(rejected_clusters[i].cluster,
                 all_scores[rejected_clusters[i].cluster].nucleus_scores) = {}

\* C5: an accepted cluster has fewer than 67% lifecycle-named members, is
\* not caught by gate mode A, has a member with nucleus score >= 0.42, and
\* has no second member scoring >= 0.42 within 0.05 of the top score.
C5_AcceptedPassesGates ==
    \A i \in DOMAIN valid_clusters :
       LET cluster == valid_clusters[i]
           nucleus_scores == all_scores[cluster].nucleus_scores
           boilerplate_scores == all_scores[cluster].boilerplate_scores
           top_score == MaxScore(nucleus_scores)
       IN /\ 100 * Cardinality(cluster \cap LifecycleNamed) < 67 * Cardinality(cluster)
          /\ ~ModeA(cluster, nucleus_scores, boilerplate_scores, order)
          /\ \E fn \in cluster : QGe(nucleus_scores[fn], Q(42, 100))
          /\ Cardinality({fn \in cluster :
                             /\ QGe(nucleus_scores[fn], Q(42, 100))
                             /\ QLe(QSub(top_score, nucleus_scores[fn]), Q(5, 100))}) = 1

\* an accepted cluster with two members at or above 0.42 that are more than
\* 0.05 apart, and with a lifecycle-named member
C5_Witness ==
    \E i \in DOMAIN valid_clusters :
       LET cluster == valid_clusters[i]
           nucleus_scores == all_scores[cluster].nucleus_scores
       IN /\ Cardinality(Nuclei(cluster, nucleus_scores)) > 1
          /\ cluster \cap LifecycleNamed # {}

\* C6: a reported cluster is in exactly one of three states, and
\* cluster_state says which: a nucleus (no proto-nucleus), a proto-nucleus
\* (no nucleus), or diffuse (neither); a proto-nucleus detected from a
\* cluster's scores has 2 to 5 members.
C6_OneClusterState ==
    /\ \A i \in DOMAIN results :
          LET analysis == results[i].analysis IN
          /\ analysis.cluster_state \in {"nucleus", "proto_nucleus", "diffuse"}
          /\ (analysis.cluster_state = "nucleus") <=> (analysis.nucleus # None)
          /\ (analysis.cluster_state = "proto_nucleus") <=>
                (analysis.nucleus = None /\ analysis.proto_nucleus # <<>>)
          /\ (analysis.cluster_state = "diffuse") <=>
                (analysis.nucleus = None /\ analysis.proto_nucleus = <<>>)
          /\ analysis.nucleus # None => analysis.proto_nucleus = <<>>
          /\ analysis.nucleus # None => analysis.nucleus \in results[i].functions
          /\ analysis.proto_nucleus # <<>> => Len(analysis.proto_nucleus) \in 2..5
    /\ pc = "done" =>
          \A c \in DOMAIN all_scores :
             LET proto_set == detect_proto_nucleus(c, all_scores[c].nucleus_scores,
                                                   context_roots,
                                                   all_scores[c].boilerplate_scores,
                                                   calls, order)
             IN proto_set = <<>> \/
                (Len(proto_set) \in 2..5 /\ Cardinality(Range(proto_set)) = Len(proto_set))

\* a reported cluster in state diffuse: the gate accepted it for a member at
\* or above 0.42, the report found neither a nucleus nor a proto-nucleus
C6_Witness ==
    \E i \in DOMAIN results :
       /\ results[i].analysis.cluster_state = "diffuse"
       /\ results[i].analysis.nucleus = None
       /\ Nuclei(results[i].functions, all_scores[results[i].functions].nucleus_scores) # {}

\* context roots a function touches
ContextCount(fn) == Cardinality(Get(context_roots, fn, {}))

\* C7: a reported cluster with at most 4 members and a nucleus has no
\* leverage point, whatever its members' context-root counts; and a cluster
\* of at most 4 members that no stop condition matches is accepted.
C7_NoLeverageInSmallCluster ==
    /\ \A i \in DOMAIN results :
          (Cardinality(results[i].functions) <= 4 /\ results[i].analysis.nucleus # None) =>
             /\ results[i].analysis.leverage_point = None
             /\ results[i].analysis.leverage_context_count = 0
    /\ \A c \in Processed :
          LET nucleus_scores == all_scores[c].nucleus_scores
              boilerplate_scores == all_scores[c].boilerplate_scores
          IN (/\ Cardinality(c) <= 4
              /\ ~ModeA(c, nucleus_scores, boilerplate_scores, order)
              /\ ~ModeB(c)
              /\ Nuclei(c, nucleus_scores) # {}
              /\ Cardinality(Competing(c, nucleus_scores)) <= 1) => c \in Accepted

\* a reported cluster of at most 4 members whose nucleus touches 2 roots
\* while another member, not boilerplate, touches 4
C7_Witness ==
    \E i \in DOMAIN results :
       /\ Cardinality(results[i].functions) <= 4
       /\ results[i].analysis.nucleus # None
       /\ \E fn \in results[i].functions :
             /\ ~IsBoilerplate(all_scores[results[i].functions].boilerplate_scores[fn])
             /\ ContextCount(fn) - ContextCount(results[i].analysis.nucleus) > 1

\* C8: in a reported cluster with a nucleus and more than 4 members, the
\* leverage point is a non-boilerplate, non-nucleus member touching the most
\* context roots exactly when that count exceeds the nucleus's count by more
\* than 1; otherwise no leverage point is reported.
C8_LeveragePointIsWidest ==
    \A i \in DOMAIN results :
       LET cluster == results[i].functions
           analysis == results[i].analysis
           boilerplate_scores == all_scores[cluster].boilerplate_scores
           candidates == {fn \in cluster \ {analysis.nucleus} :
                             ~IsBoilerplate(boilerplate_scores[fn])}
           widest == {fn \in candidates :
                         \A other \in candidates : ContextCount(other) <= ContextCount(fn)}
       IN (analysis.nucleus # None /\ Cardinality(cluster) > 4) =>
             IF \E fn \in candidates : ContextCount(fn) - ContextCount(analysis.nucleus) > 1
             THEN /\ analysis.leverage_point \in widest
                  /\ analysis.leverage_context_count = ContextCount(analysis.leverage_point)
             ELSE /\ analysis.leverage_point = None
                  /\ analysis.leverage_context_count = 0

\* a reported cluster of more than 4 members whose nucleus touches 2 roots
\* and whose leverage point touches 4
C8_Witness ==
    \E i \in DOMAIN results :
       /\ Cardinality(results[i].functions) > 4
       /\ results[i].analysis.nucleus # None
       /\ ContextCount(results[i].analysis.nucleus) = 2
       /\ results[i].analysis.leverage_point # None
       /\ results[i].analysis.leverage_context_count = 4

\* C9: a cluster in which at least 67% of the members carry a lifecycle,
\* registration or wiring name is rejected as boilerplate_dominated, whatever
\* its nucleus scores, and is not reported.
C9_LifecycleClusterRejected ==
    \A c \in Processed :
       100 * Cardinality(c \cap LifecycleNamed) >= 67 * Cardinality(c) =>
          /\ \E i \in DOMAIN rejected_clusters :
                /\ rejected_clusters[i].cluster = c
                /\ rejected_clusters[i].reason = "boilerplate_dominated"
          /\ c \notin Accepted
          /\ c \notin Reported

\* a cluster rejected for its lifecycle names although one of its members
\* reaches the nucleus threshold
C9_Witness ==
    \E i \in DOMAIN rejected_clusters :
       /\ rejected_clusters[i].reason = "boilerplate_dominated"
       /\ rejected_clusters[i].mode = "lifecycle"
       /\ Nuclei(rejected_clusters[i].cluster,
                 all_scores[rejected_clusters[i].cluster].nucleus_scores) # {}

\* what a finished run hands back, as far as the claim of determinism goes:
\* accepted memberships, scores, nucleus and leverage point of each reported
\* cluster, and the reason of each rejection
Outcome ==
    [accepted |-> Accepted,
     scores |-> all_scores,
     reports |-> {<<results[i].functions, results[i].analysis.nucleus,
                    results[i].analysis.nucleus_score,
                    results[i].analysis.leverage_point>> : i \in DOMAIN results},
     rejections |-> {<<rejected_clusters[i].cluster, rejected_clusters[i].reason>> :
                        i \in DOMAIN rejected_clusters}]

\* the same for a run of analyze() on the same functions and call graph in
\* which the sets are iterated in the order other_order
OutcomeUnder(other_order) ==
    LET adjacency == Adjacency(structural_functions, calls, idents, context_roots,
                               fanout, other_order)
        caller_dict == CallersFor(structural_functions, calls, call_graph)
        raw == find_connected_components(structural_functions, adjacency, other_order)
        scores_of(c) ==
            LET boilerplate_scores == BoilerplateScores(c, calls) IN
            [nucleus_scores |-> NucleusScores(c, calls, caller_dict, context_roots,
                                              boilerplate_scores, veneers, call_graph,
                                              func_scope),
             boilerplate_scores |-> boilerplate_scores]
        verdict(c) == GateVerdict(c, scores_of(c).nucleus_scores,
                                  scores_of(c).boilerplate_scores, other_order)
        analysis(c) == _analysis_for_cluster(c, context_roots, call_graph, calls,
                                             caller_dict, veneers, func_scope, other_order)
        accepted == {c \in Range(raw) : verdict(c).reason = "accepted"}
    IN [accepted |-> accepted,
        scores |-> [c \in Range(raw) |-> scores_of(c)],
        reports |-> {<<c, analysis(c).nucleus, Round3(analysis(c).nucleus_score),
                       analysis(c).leverage_point>> : c \in accepted},
        rejections |-> {<<c, verdict(c).reason>> : c \in Range(raw) \ accepted}]

\* C10: a finished run and a run on the same input that iterates its sets in
\* the opposite order give the same accepted memberships, the same scores,
\* the same nucleus and leverage point, and the same rejection reasons.
C10_SameOutcomeInAnyOrder ==
    pc = "done" => Outcome = OutcomeUnder(Reverse(order))

\* the weight of the ordered pair (a, b) in the project being analysed
Weight(a, b) == coupling(a, b, calls, idents, context_roots, fanout)

\* C11: once the edges are built, two distinct non-utility functions are
\* adjacent if and only if the coupling of the pair reaches the cluster
\* threshold in one direction or the other.
C11_AdjacentIffCoupled ==
    pc # "discover" =>
        \A a \in structural_functions : \A b \in structural_functions \ {a} :
            (b \in Get(adj, a, {})) <=>
                (QGe(Weight(a, b), CLUSTER_THRESHOLD) \/ QGe(Weight(b, a), CLUSTER_THRESHOLD))

\* the functions joined to those of S by a path of adjacency edges
RECURSIVE Reachable(_)
Reachable(S) ==
    IF S \cup UNION {Get(adj, n, {}) : n \in S} = S THEN S
    ELSE Reachable(S \cup UNION {Get(adj, n, {}) : n \in S})

\* C12: the adjacency is symmetric, and the raw clusters are exactly its
\* connected components with two or more members, each listed once: they are
\* pairwise disjoint, connected and maximal, and every function with a
\* neighbour lies in exactly one of them.
C12_RawClustersAreComponents ==
    pc # "discover" =>
        /\ \A a \in DOMAIN adj : \A b \in adj[a] : a \in Get(adj, b, {})
        /\ Range(raw_clusters) =
              {c \in {Reachable({a}) : a \in structural_functions} : Cardinality(c) >= 2}
        /\ Len(raw_clusters) = Cardinality(Range(raw_clusters))
        /\ \A i \in 1..Len(raw_clusters) : \A j \in 1..Len(raw_clusters) :
              i # j => raw_clusters[i] \cap raw_clusters[j] = {}
        /\ \A a \in structural_functions :
              Get(adj, a, {}) # {} =>
                  Cardinality({i \in 1..Len(raw_clusters) : a \in raw_clusters[i]}) = 1

\* a run with two raw clusters, one of them a chain whose ends are not adjacent
C12_Witness_TwoClustersOneChain ==
    /\ pc # "discover"
    /\ Len(raw_clusters) >= 2
    /\ \E i \in 1..Len(raw_clusters) : \E a \in raw_clusters[i] : \E b \in raw_clusters[i] \ {a} :
          b \notin Get(adj, a, {})

\* the calls of fn that stay inside the project
CallsInside(fn) == Get(calls, fn, {}) \cap functions

\* the project is one caller A of B and C and nothing else, and B and C share
\* two context roots of which A has none
CallerOfTwoCoupled(A, B, C) ==
    /\ functions = {A, B, C} /\ A # B /\ A # C /\ B # C
    /\ CallsInside(A) = {B, C} /\ CallsInside(B) = {} /\ CallsInside(C) = {}
    /\ Cardinality(Get(context_roots, B, {}) \cap Get(context_roots, C, {})) = 2
    /\ Get(context_roots, B, {}) \cap Get(context_roots, C, {}) \cap Get(context_roots, A, {}) = {}

\* C13: in a project that is only A calling B and C, where B and C share two
\* context roots A does not have, discovery gives the single raw cluster
\* {A, B, C}, and B and C are coupled more strongly with each other than
\* either is with A.
C13_CallerAndCalleesCluster ==
    pc # "discover" =>
        \A A \in functions : \A B \in functions : \A C \in functions :
            CallerOfTwoCoupled(A, B, C) =>
                /\ raw_clusters = <<{A, B, C}>>
                /\ \A x \in {B, C} :
                      /\ QGt(Weight(B, C), Weight(A, x)) /\ QGt(Weight(B, C), Weight(x, A))
                      /\ QGt(Weight(C, B), Weight(A, x)) /\ QGt(Weight(C, B), Weight(x, A))

\* a direct call of detect_proto_nucleus on a cluster of two in which both
\* score in [0.40, 0.55), neither is boilerplate, the two share a context
\* root and each calls the other
TwoSupportedCandidates ==
    /\ scored.kind = "proto"
    /\ Cardinality(scored.cluster) = 2
    /\ \A fn \in scored.cluster :
          /\ QLe(Q(40, 100), scored.nucleus_scores[fn])
          /\ QLt(scored.nucleus_scores[fn], Q(55, 100))
          /\ QLt(scored.boilerplate_scores[fn], Q(6, 10))
          /\ \A other \in scored.cluster \ {fn} :
                /\ other \in scored.calls[fn]
                /\ scored.context_roots[fn] \cap scored.context_roots[other] # {}

\* the mean of the two nucleus scores is at least 0.45
MeanReachesStrength ==
    \E a \in scored.cluster : \E b \in scored.cluster \ {a} :
        QGe(QAdd(scored.nucleus_scores[a], scored.nucleus_scores[b]), Q(90, 100))

NamesAlone ==
    /\ scored.kind = "coupling"
    /\ Get(scored.context_roots, scored.fn_name, {})
          \cap Get(scored.context_roots, scored.other, {}) = {}
    /\ scored.other \notin scored.call_dict[scored.fn_name]
    /\ scored.fn_name \notin scored.call_dict[scored.other]

\* the same two bodies under the names a2 and b2
Renamed(dict, a2, b2) ==
    IF dict = EmptyDict THEN EmptyDict
    ELSE [f \in {a2, b2} |-> IF f = a2 THEN dict[scored.fn_name] ELSE dict[scored.other]]

\* the names the two functions can take without turning a callee into one of them
FreshNames == Names \ (scored.call_dict[scored.fn_name] \cup scored.call_dict[scored.other])

\* what the terms that do not read the names add up to
NamelessWeight ==
    LET shared == scored.idents[scored.fn_name] \cap scored.idents[scored.other]
        t_idents == IF Cardinality(shared) >= 3
                    THEN QMin(Q(3, 10), Q(3 * Cardinality(shared), 100)) ELSE Zero
        t_fanout == QMin(Q(5, 10), Q(3 * Cardinality(scored.call_dict[scored.other]), 100))
    IN QMax(Zero, QSub(t_idents, t_fanout))

\* C15: when a and b share no context root and neither calls the other, the
\* name-similarity term and the action-verb bonus add nothing: coupling(a, b)
\* is what the other terms give, it is the same under every other pair of
\* names, and it is 0 when the two share fewer than 3 identifiers.
C15_NamesAloneNeverCouple ==
    NamesAlone =>
        /\ scored.value = NamelessWeight
        /\ \A a2 \in FreshNames : \A b2 \in FreshNames \ {a2} :
              coupling(a2, b2, Renamed(scored.call_dict, a2, b2),
                       Renamed(scored.idents, a2, b2),
                       Renamed(scored.context_roots, a2, b2),
                       [f \in {a2, b2} |-> Cardinality(Renamed(scored.call_dict, a2, b2)[f])])
                  = scored.value
        /\ Cardinality(scored.idents[scored.fn_name] \cap scored.idents[scored.other]) < 3
              => scored.value = Zero

\* such a call on two functions whose names share a token and hold an action
\* verb, with a positive weight from the shared identifiers
C15_Witness_SimilarNamesNoBonus ==
    /\ NamesAlone
    /\ QGt(semantic_similarity(scored.fn_name, scored.other), Zero)
    /\ NameFacts[scored.fn_name].action
    /\ QGt(scored.value, Zero)

\* the call graph marks fn as a utility
MarkedUtility(fn) ==
    call_graph # EmptyDict /\ fn \in DOMAIN call_graph /\ call_graph[fn].is_utility

\* fn is a function of the registry that is not a utility
RegisteredNonUtility(fn) == fn \in functions /\ ~MarkedUtility(fn)

\* C16: every member of a raw cluster, of an accepted cluster and of a
\* reported cluster, and both ends of every kept weighted edge, is a function
\* of the registry that is not a utility; so no unresolved callee name and no
\* utility is ever a member.
C16_MembersAreRegisteredNonUtilities ==
    /\ \A i \in DOMAIN raw_clusters : \A fn \in raw_clusters[i] : RegisteredNonUtility(fn)
    /\ \A i \in DOMAIN valid_clusters : \A fn \in valid_clusters[i] : RegisteredNonUtility(fn)
    /\ \A i \in DOMAIN results : \A fn \in results[i].functions : RegisteredNonUtility(fn)
    /\ \A i \in DOMAIN all_edges :
          RegisteredNonUtility(all_edges[i][1]) /\ RegisteredNonUtility(all_edges[i][2])

\* a reported cluster with a member that calls both a utility of the project
\* and a name that is no function of the project
C16_Witness_CallsUtilityAndUnresolved ==
    \E i \in DOMAIN results : \E fn \in results[i].functions :
        /\ \E u \in Get(calls, fn, {}) : u \in functions /\ MarkedUtility(u)
        /\ \E c \in Get(calls, fn, {}) : c \notin functions
        /\ all_edges # <<>>

\* the sum of the fan-ins of the functions of S in the built registry
RECURSIVE TotalFanin(_)
TotalFanin(S) ==
    IF S = {} THEN 0
    ELSE LET fn == CHOOSE n \in S : TRUE IN call_graph[fn].fanin + TotalFanin(S \ {fn})

\* fn is called by 5 or more functions from 3 or more files
HighFaninMultiFile(fn) == call_graph[fn].fanin >= 5 /\ call_graph[fn].files_calling >= 3

\* the fan-in of fn is more than 3 times the mean fan-in, and its callers are
\* in 2 or more files
ExtremeOutlier(fn) ==
    /\ call_graph[fn].fanin * Cardinality(functions) > 3 * TotalFanin(functions)
    /\ call_graph[fn].files_calling >= 2

\* C17: identify_utilities returns exactly the functions with (fan-in >= 5
\* and files_calling >= 3) or (fan-in > 3 times the mean fan-in of all
\* functions and files_calling >= 2); for a project without functions it
\* returns the empty set.
C17_UtilitiesExactlyByRule ==
    pc = "built" =>
        /\ scored.value = {fn \in functions : HighFaninMultiFile(fn) \/ ExtremeOutlier(fn)}
        /\ \A fn \in functions : call_graph[fn].is_utility <=> fn \in scored.value
        /\ functions = {} => scored.value = {}

\* a registry in which one function is a utility by the first rule only and
\* another, called from 3 files by fewer than 5 functions, is none
C17_Witness_FirstRuleOnly ==
    /\ pc = "built"
    /\ \E fn \in scored.value : HighFaninMultiFile(fn) /\ ~ExtremeOutlier(fn)
    /\ \E fn \in functions \ scored.value : call_graph[fn].files_calling >= 3

\* C18: the callers handed to scoring are the exact inverse of the calls
\* among the functions that take part in clustering: c is a caller of f if
\* and only if f is a callee of c, with and without a supplementary call
\* graph.
C18_CallersInverseOfCalls ==
    pc # "discover" =>
        \A c \in structural_functions : \A f \in structural_functions :
            c \in Get(callers, f, {}) <=> f \in Get(calls, c, {})

\* C19: after extraction neither the calls nor the context roots of a
\* function hold the function's own name, also when the function calls
\* itself or is named like a context provider or a guard.
C19_OwnNameNeverExtracted ==
    scored.kind = "parsed" =>
        scored.name \notin scored.calls /\ scored.name \notin scored.roots

\* the strength of edge e is strictly greater than mean + 1 standard
\* deviation of the strengths of the call's internal edges
StrictlyAboveThreshold(e) ==
    LET edges == scored.internal_edges
        mean == QMul(StrengthSum(edges), Q(1, Len(edges)))
        d == QSub(e[3], mean)
    IN QGt(d, Zero) /\ QGt(QMul(d, d), StdevSquared(edges, mean))

\* the ends of e both score 0.55 or more
ShareNucleus(e) ==
    /\ QGe(scored.nucleus_scores[e[1]], Q(55, 100))
    /\ QGe(scored.nucleus_scores[e[2]], Q(55, 100))

\* the ends of e are both below boilerplate 0.6 and have a root in common
ShareContext(e) ==
    /\ QLt(scored.boilerplate_scores[e[1]], Q(6, 10))
    /\ QLt(scored.boilerplate_scores[e[2]], Q(6, 10))
    /\ scored.context_roots[e[1]] \cap scored.context_roots[e[2]] # {}

\* C20: an internal edge is flagged as an inappropriate connection exactly
\* when its strength is strictly greater than mean + 1 standard deviation of
\* the cluster's internal edge weights, its ends do not both score 0.55 or
\* more, and its ends share no non-boilerplate context root; an edge at or
\* below the threshold is never flagged.
C20_FlaggedIffStrictlyAbove ==
    scored.kind = "inappropriate" =>
        \A i \in DOMAIN scored.internal_edges :
            LET e == scored.internal_edges[i]
            IN (e \in Range(scored.value)) <=>
                   (StrictlyAboveThreshold(e) /\ ~ShareNucleus(e) /\ ~ShareContext(e))

(***************************************************************************)
(* main() and the file loop of analyze().  main() decides whether to       *)
(* regenerate the call-graph file, runs the builder, loads whatever file   *)
(* is at the path, and calls analyze(), which reads the source files one   *)
(* by one before the pipeline starts.  The files of one run all have the   *)
(* stem `browser` (they lie in different directories), so their functions  *)
(* are qualified with the same module name.                                *)
(***************************************************************************)
MaxFiles == 2

MainProjects == {S \in SUBSET Names : Cardinality(S) = 2}

\* the ways to spread the functions of S over k files, none of them empty
FileSplits(S, k) ==
    {[i \in 1..k |-> {fn \in S : f[fn] = i}] :
        f \in {g \in [S -> 1..k] : \A i \in 1..k : \E fn \in S : g[fn] = i}}

\* the file lists of a run: each file readable or not
SourceFiles(S) ==
    UNION {{[i \in 1..k |-> [path |-> i, fns |-> split[i], readable |-> r[i]]] :
               split \in FileSplits(S, k), r \in [1..k -> BOOLEAN]} :
           k \in 1..MaxFiles}

FileFunctions(files) == UNION {files[i].fns : i \in DOMAIN files}

InitMain ==
    /\ \E S \in MainProjects :
          /\ order \in Orders(S)
          /\ \E files \in SourceFiles(S), update_call_graph \in BOOLEAN,
                graph_file \in {"absent", "old"} :
                scored = [kind |-> "main", files |-> files,
                          update_call_graph |-> update_call_graph,
                          graph_file |-> graph_file,
                          generation |-> "not run", loaded |-> "none"]
    /\ functions = {}
    /\ call_graph = EmptyDict
    /\ pc = "main"
    /\ cursor = 0
    /\ all_edges = <<>>
    /\ adj = EmptyDict
    /\ callers = EmptyDict
    /\ raw_clusters = <<>>
    /\ valid_clusters = <<>>
    /\ rejected_clusters = <<>>
    /\ all_scores = EmptyDict
    /\ results = <<>>

call_graph_needs_update == scored.update_call_graph \/ scored.graph_file = "absent"

\* the builder subprocess: on success it writes the file anew, on a non-zero
\* return code the file at the path stays as it was
GenerateCallGraph ==
    /\ pc = "main"
    /\ call_graph_needs_update
    /\ \E returncode \in {0, 1} :
          scored' = [scored EXCEPT
                        !.generation = IF returncode # 0 THEN "failed" ELSE "generated",
                        !.graph_file = IF returncode # 0 THEN @ ELSE "new"]
    /\ pc' = "load"
    /\ UNCHANGED <<functions, call_graph, order, cursor, all_edges, adj, callers,
                   raw_clusters, valid_clusters, rejected_clusters, all_scores, results>>

\* the file exists and no regeneration was asked for
KeepCallGraph ==
    /\ pc = "main"
    /\ ~call_graph_needs_update
    /\ pc' = "load"
    /\ UNCHANGED <<functions, call_graph, order, cursor, all_edges, adj, callers,
                   raw_clusters, valid_clusters, rejected_clusters, all_scores, results,
                   scored>>

\* call_graph = None, then the file at the path is loaded if there is one
LoadCallGraph ==
    /\ pc = "load"
    /\ IF scored.graph_file # "absent"
       THEN /\ call_graph' = CallGraphOf(FileFunctions(scored.files))
            /\ scored' = [scored EXCEPT !.loaded = scored.graph_file]
       ELSE /\ call_graph' = EmptyDict
            /\ UNCHANGED scored
    /\ pc' = "files"
    /\ cursor' = 1
    /\ UNCHANGED <<functions, order, all_edges, adj, callers, raw_clusters,
                   valid_clusters, rejected_clusters, all_scores, results>>

\* one iteration of the file loop: parse_lua reads the file and its
\* functions are merged into the project
ParseFile ==
    /\ pc = "files"
    /\ cursor <= Len(scored.files)
    /\ scored.files[cursor].readable
    /\ functions' = functions \cup scored.files[cursor].fns
    /\ cursor' = cursor + 1
    /\ UNCHANGED <<call_graph, order, pc, all_edges, adj, callers, raw_clusters,
                   valid_clusters, rejected_clusters, all_scores, results, scored>>

\* path.read_text raises OSError; neither parse_lua nor analyze() nor main()
\* catches it, so the run ends with the traceback and without a report
ReadTextRaises ==
    /\ pc = "files"
    /\ cursor <= Len(scored.files)
    /\ ~scored.files[cursor].readable
    /\ pc' = "raised"
    /\ UNCHANGED <<functions, call_graph, order, cursor, all_edges, adj, callers,
                   raw_clusters, valid_clusters, rejected_clusters, all_scores, results,
                   scored>>

\* the file loop is over; the pipeline starts
FilesParsed ==
    /\ pc = "files"
    /\ cursor > Len(scored.files)
    /\ pc' = "discover"
    /\ cursor' = 0
    /\ UNCHANGED <<functions, call_graph, order, all_edges, adj, callers, raw_clusters,
                   valid_clusters, rejected_clusters, all_scores, results, scored>>

NextMain ==
    \/ GenerateCallGraph \/ KeepCallGraph \/ LoadCallGraph
    \/ ParseFile \/ ReadTextRaises \/ FilesParsed
    \/ Discover \/ ValidateCluster \/ ValidateReturn \/ ReportCluster \/ Return

SpecMain == InitMain /\ [][NextMain]_vars

(***************************************************************************)
(* parse_lua: the scan for the end of a function body.  A line is the      *)
(* sequence of its words (what \b...\b can match) and the names it calls;  *)
(* line 1 is the definition line of the function being delimited.          *)
(***************************************************************************)
MaxScanLines == 5

\* re.findall(r'\bkeyword\b', stripped)
KeywordCount(line, keyword) == Cardinality({i \in DOMAIN line.words : line.words[i] = keyword})

opening_keywords == {"function", "if", "while", "for", "do", "repeat"}

closing_keywords == {"end", "until"}

RECURSIVE CountAll(_, _)
CountAll(line, keywords) ==
    IF keywords = {} THEN 0
    ELSE LET k == CHOOSE x \in keywords : TRUE
         IN KeywordCount(line, k) + CountAll(line, keywords \ {k})

\* the depth after line i: every opening keyword adds one, every `end` and
\* `until` takes one away
DepthAfter(line, depth) ==
    depth + CountAll(line, opening_keywords) - CountAll(line, closing_keywords)

RECURSIVE ScanForEnd(_, _, _)
\* the loop over the lines after the definition line; Len(lines) + 1 stands
\* for the default, the end of the file
ScanForEnd(lines, i, depth) ==
    IF i > Len(lines) THEN Len(lines) + 1
    ELSE IF DepthAfter(lines[i], depth) = 0 THEN i
    ELSE ScanForEnd(lines, i + 1, DepthAfter(lines[i], depth))

\* the line the body ends before
end_line(lines) == ScanForEnd(lines, 2, 1)

\* the calls found in lines[start_line+1:end_line], self-calls dropped
BodyCalls(name, lines) ==
    UNION {lines[i].calls : i \in 2..(end_line(lines) - 1)} \ {name}

ScanLineForms ==
    {[words |-> <<"if", "ready", "then">>, calls |-> {}],
     [words |-> <<"for", "i", "do">>, calls |-> {}],
     [words |-> <<"while", "busy", "do">>, calls |-> {}],
     [words |-> <<"repeat">>, calls |-> {}],
     [words |-> <<"until", "done">>, calls |-> {}],
     [words |-> <<"end">>, calls |-> {}],
     [words |-> <<"local", "function", "step">>, calls |-> {"step"}],
     [words |-> <<"helper", "i">>, calls |-> {"helper"}],
     [words |-> <<"shutdown">>, calls |-> {"shutdown"}]}

DefinitionLine == [words |-> <<"function", "M.load_items">>, calls |-> {"M.load_items"}]

\* the block a line opens in Lua: `for` and `while` belong to the header of
\* the block their `do` opens
BlockOpened(line) ==
    IF KeywordCount(line, "repeat") > 0 THEN "repeat"
    ELSE IF KeywordCount(line, "do") > 0 THEN "do"
    ELSE IF KeywordCount(line, "if") > 0 THEN "if"
    ELSE IF KeywordCount(line, "function") > 0 THEN "function"
    ELSE ""

RECURSIVE CloseOfFunction(_, _, _)
\* the line of the `end` that closes the function of line 1, by matching
\* every `end` and `until` with the block it closes; 0 if the blocks do not
\* nest or the function is not closed
CloseOfFunction(lines, i, open) ==
    IF i > Len(lines) THEN 0
    ELSE IF KeywordCount(lines[i], "end") > 0
    THEN IF open[Len(open)] = "repeat" THEN 0
         ELSE IF Len(open) = 1 THEN i
         ELSE CloseOfFunction(lines, i + 1, SubSeq(open, 1, Len(open) - 1))
    ELSE IF KeywordCount(lines[i], "until") > 0
    THEN IF open[Len(open)] # "repeat" THEN 0
         ELSE CloseOfFunction(lines, i + 1, SubSeq(open, 1, Len(open) - 1))
    ELSE IF BlockOpened(lines[i]) # ""
    THEN CloseOfFunction(lines, i + 1, Append(open, BlockOpened(lines[i])))
    ELSE CloseOfFunction(lines, i + 1, open)

own_end(lines) == CloseOfFunction(lines, 2, <<"function">>)

\* the files scanned: a well-nested function M.load_items of several lines,
\* followed by whatever comes after its `end`
ScannedFiles ==
    {lines \in UNION {[1..k -> ScanLineForms \cup {DefinitionLine}] : k \in 3..(MaxScanLines + 1)} :
        /\ lines[1] = DefinitionLine
        /\ \A i \in 2..Len(lines) : lines[i] # DefinitionLine
        /\ own_end(lines) > 2}

InitScan ==
    /\ scored \in {[kind |-> "file", lines |-> lines] : lines \in ScannedFiles}
    /\ functions = {}
    /\ call_graph = EmptyDict
    /\ order = <<>>
    /\ pc = "scan"
    /\ cursor = 0
    /\ all_edges = <<>>
    /\ adj = EmptyDict
    /\ callers = EmptyDict
    /\ raw_clusters = <<>>
    /\ valid_clusters = <<>>
    /\ rejected_clusters = <<>>
    /\ all_scores = EmptyDict
    /\ results = <<>>

\* the second loop of parse_lua for the function of line 1
ExtractBody ==
    /\ pc = "scan"
    /\ scored' = [kind |-> "body", lines |-> scored.lines,
                  end_line |-> end_line(scored.lines),
                  calls |-> BodyCalls("M.load_items", scored.lines)]
    /\ pc' = "scanned"
    /\ UNCHANGED <<functions, call_graph, order, cursor, all_edges, adj, callers,
                   raw_clusters, valid_clusters, rejected_clusters, all_scores, results>>

NextScan == ExtractBody

SpecScan == InitScan /\ [][NextScan]_vars

(***************************************************************************)
(* The divisions of the scoring, gating and classification steps.  Every   *)
(* operator below gives the divisors one step divides by on an input: the  *)
(* divisor of each `/` of the step whose branch the input takes.           *)
(***************************************************************************)
MaxDividedCluster == 3

\* calculate_boilerplate_score: fanout / FANOUT_HIGH_WATERMARK, and the call
\* density on the LOC of the function or, without a LOC, on the expected LOC
BoilerplateDivisors(fn_name, fn_fanout, loc_dict) ==
    {FANOUT_HIGH_WATERMARK} \cup
    (IF loc_dict # EmptyDict /\ fn_name \in DOMAIN loc_dict
     THEN IF loc_dict[fn_name] > 0 THEN {Max2(1, loc_dict[fn_name])} ELSE {}
     ELSE {Max2(5, fn_fanout * 2)})

\* the divisor of inward_call_weight with the guard left out
InwardCallDivisorUnguarded(cluster) == Cardinality(cluster) - 1

\* the divisor of inward_call_weight: max(1, len(cluster) - 1)
InwardCallDivisor(cluster) == Max2(1, Cardinality(cluster) - 1)

\* calculate_nucleus_score: inward_call_weight, shared_context_weight and
\* internal_participation
NucleusDivisors(fn_name, cluster, call_dict, root_dict) ==
    LET fn_table_roots == {r \in Get(root_dict, fn_name, {}) : IsTableRoot[r]}
        cluster_roots ==
            UNION {{r \in Get(root_dict, other_fn, {}) : IsTableRoot[r]} :
                       other_fn \in cluster \ {fn_name}}
        fn_calls == Get(call_dict, fn_name, {})
    IN {InwardCallDivisor(cluster)} \cup
       (IF fn_table_roots # {} /\ cluster_roots # {}
        THEN {Cardinality(fn_table_roots)} ELSE {}) \cup
       (IF fn_calls # {} THEN {Cardinality(fn_calls)} ELSE {})

\* coupling: 0.5 / max(1, fanout[a]), taken when a calls b
CouplingDivisors(a, b, call_dict) ==
    IF b \in call_dict[a] THEN {Max2(1, Cardinality(call_dict[a]))} ELSE {}

\* the gate: boilerplate_fraction and lifecycle_fraction
GateDivisors(cluster) == {Max2(1, Cardinality(cluster))}

\* the result loop: hub_strength when the cluster has internal edges, and
\* the share of the dominant file in the lines of the cluster, which the
\* ownership divides by with several files and the report with any
ClassificationDivisors(cluster, adjacency, loc_dict) ==
    LET degree == Degree(cluster, adjacency) IN
    (IF DOMAIN degree # {}
     THEN {Max2(1, LargestOf({degree[a] : a \in DOMAIN degree}, 0))} ELSE {})
    \cup {Max2(1, LocSum(cluster, loc_dict))}

\* total_functions, the divisor of the coverage of a root
total_functions(function_set) == Max2(1, Cardinality(function_set))

DividedClusters ==
    {S \in SUBSET Names : Cardinality(S) >= 1 /\ Cardinality(S) <= MaxDividedCluster}

\* adjacency of a cluster: no internal edge, a chain, or every pair
ClusterAdjacencies(cluster) ==
    LET members == SeqOfSet(cluster)
        chain == [f \in cluster |->
                     {g \in cluster : \E i \in 1..(Len(members) - 1) :
                                         {members[i], members[i + 1]} = {f, g} /\ f # g}]
    IN {EmptyDict, chain, [f \in cluster |-> cluster \ {f}]}

\* func_loc of a cluster: no entry, 0 lines for every member, the lines of
\* the bodies
ClusterLocs(cluster) ==
    {EmptyDict, [f \in cluster |-> 0], [f \in cluster |-> Body[f].loc]}

\* func_file of a cluster: one file, or the first member in a file of its own
ClusterFiles(cluster) ==
    {[f \in cluster |-> FileOf(f)],
     [f \in cluster |-> IF f = SeqOfSet(cluster)[1] THEN "inspector.lua" ELSE FileOf(f)]}

\* the values a step yields are defined: a rational has a positive
\* denominator
Defined(value) == value.d > 0

InitDivide == InitScore

\* calculate_boilerplate_score on one function
DivideForBoilerplate ==
    /\ pc = "score"
    /\ \E fn \in Names, many \in BOOLEAN, no_calls \in BOOLEAN :
       \E loc_dict \in FuncLocs(fn) :
          LET call_dict == IF no_calls THEN [f \in {fn} |-> {}] ELSE ScoredCalls({fn}, many)
          IN scored' = [kind |-> "boilerplate", fn_name |-> fn, cluster |-> {fn},
                        calls |-> call_dict[fn], func_loc |-> loc_dict,
                        divisors |-> BoilerplateDivisors(fn, Cardinality(call_dict[fn]), loc_dict),
                        values |-> {calculate_boilerplate_score(fn, call_dict, loc_dict, EmptyDict)}]
    /\ pc' = "scored"
    /\ UNCHANGED <<functions, call_graph, order, cursor, all_edges, adj, callers,
                   raw_clusters, valid_clusters, rejected_clusters, all_scores, results>>

\* calculate_nucleus_score on one member of a cluster
DivideForNucleus ==
    /\ pc = "score"
    /\ \E cluster \in DividedClusters, with_roots \in BOOLEAN, with_calls \in BOOLEAN :
       \E fn \in cluster :
          LET call_dict == IF with_calls THEN ScoredCalls(cluster, FALSE)
                           ELSE [f \in cluster |-> {}]
              root_dict == IF with_roots THEN [f \in cluster |-> Body[f].roots] ELSE EmptyDict
          IN scored' = [kind |-> "nucleus", fn_name |-> fn, cluster |-> cluster,
                        calls |-> call_dict[fn], context_roots |-> root_dict,
                        divisors |-> NucleusDivisors(fn, cluster, call_dict, root_dict),
                        values |-> {calculate_nucleus_score(
                                        fn, cluster, call_dict,
                                        CallersFor(cluster, call_dict, EmptyDict), root_dict,
                                        BoilerplateScores(cluster, call_dict), {},
                                        EmptyDict, EmptyDict)}]
    /\ pc' = "scored"
    /\ UNCHANGED <<functions, call_graph, order, cursor, all_edges, adj, callers,
                   raw_clusters, valid_clusters, rejected_clusters, all_scores, results>>

\* coupling of two functions
DivideForCoupling ==
    /\ pc = "score"
    /\ \E a \in Names, with_calls \in BOOLEAN :
       \E b \in Names \ {a} :
          LET call_dict == IF with_calls THEN ScoredCalls({a, b}, FALSE)
                           ELSE [f \in {a, b} |-> {}]
          IN scored' = [kind |-> "coupling", fn_name |-> a, other |-> b, cluster |-> {a, b},
                        calls |-> call_dict[a],
                        divisors |-> CouplingDivisors(a, b, call_dict),
                        values |-> {coupling(a, b, call_dict,
                                             [f \in {a, b} |-> Body[f].idents],
                                             [f \in {a, b} |-> Body[f].roots],
                                             [f \in {a, b} |-> Cardinality(call_dict[f])])}]
    /\ pc' = "scored"
    /\ UNCHANGED <<functions, call_graph, order, cursor, all_edges, adj, callers,
                   raw_clusters, valid_clusters, rejected_clusters, all_scores, results>>

\* the gate on one cluster
DivideForGate ==
    /\ pc = "score"
    /\ \E cluster \in DividedClusters :
          LET call_dict == ScoredCalls(cluster, FALSE)
              boilerplate_scores == BoilerplateScores(cluster, call_dict)
              nucleus_scores ==
                  NucleusScores(cluster, call_dict, CallersFor(cluster, call_dict, EmptyDict),
                                [f \in cluster |-> Body[f].roots], boilerplate_scores, {},
                                EmptyDict, EmptyDict)
          IN scored' = [kind |-> "gate", cluster |-> cluster,
                        divisors |-> GateDivisors(cluster),
                        values |-> {nucleus_scores[f] : f \in cluster},
                        verdict |-> GateVerdict(cluster, nucleus_scores, boilerplate_scores,
                                                SeqOfSet(cluster)).reason]
    /\ pc' = "scored"
    /\ UNCHANGED <<functions, call_graph, order, cursor, all_edges, adj, callers,
                   raw_clusters, valid_clusters, rejected_clusters, all_scores, results>>

\* one iteration of the result loop: type and ownership of a cluster
DivideForClassification ==
    /\ pc = "score"
    /\ \E cluster \in DividedClusters, with_calls \in BOOLEAN :
       \E adjacency \in ClusterAdjacencies(cluster), loc_dict \in ClusterLocs(cluster),
          file_dict \in ClusterFiles(cluster) :
          LET fanout_dict == [f \in cluster |->
                                 IF with_calls THEN Cardinality(Body[f].calls) ELSE 0]
              degree == Degree(cluster, adjacency)
          IN scored' = [kind |-> "classification", cluster |-> cluster,
                        adjacency |-> adjacency, func_loc |-> loc_dict,
                        func_file |-> file_dict, fanout |-> fanout_dict,
                        total_functions |-> total_functions(cluster),
                        divisors |-> ClassificationDivisors(cluster, adjacency, loc_dict)
                                         \cup {total_functions(cluster)},
                        values |-> {hub_strength(cluster, degree, fanout_dict, SeqOfSet(cluster))},
                        type |-> cluster_type(cluster, degree, fanout_dict, SeqOfSet(cluster)),
                        ownership |-> Ownership(cluster, loc_dict, file_dict, SeqOfSet(cluster))]
    /\ pc' = "scored"
    /\ UNCHANGED <<functions, call_graph, order, cursor, all_edges, adj, callers,
                   raw_clusters, valid_clusters, rejected_clusters, all_scores, results>>

\* analyze() on no function at all: total_functions is all that is computed
DivideForNoFunction ==
    /\ pc = "score"
    /\ scored' = [kind |-> "empty", cluster |-> {},
                  total_functions |-> total_functions({}),
                  divisors |-> {total_functions({})}, values |-> {}]
    /\ pc' = "scored"
    /\ UNCHANGED <<functions, call_graph, order, cursor, all_edges, adj, callers,
                   raw_clusters, valid_clusters, rejected_clusters, all_scores, results>>

NextDivide ==
    \/ DivideForBoilerplate
    \/ DivideForNucleus
    \/ DivideForCoupling
    \/ DivideForGate
    \/ DivideForClassification
    \/ DivideForNoFunction

SpecDivide == InitDivide /\ [][NextDivide]_vars

\* ---------------------------------------------------------------------
\* Properties of the report, the gate and the input handling (C21..C30)
\* ---------------------------------------------------------------------

\* an event-boundary handler: the unqualified name has the form handle_*
EventBoundary(fn) == StartsWith(LastPart(fn), "handle_")

\* C21: a cluster member that is an event-boundary handler (handle_*) is
\* never reported as the cluster's leverage point.
C21_HandlerNeverLeveragePoint ==
    \A i \in DOMAIN results :
       results[i].analysis.leverage_point # None =>
          ~EventBoundary(results[i].analysis.leverage_point)

\* a reported cluster whose non-boilerplate member handle_tree_item_changed
\* touches at least two context roots more than the nucleus
C21_HandlerIsWidest ==
    \E i \in DOMAIN results :
       LET cluster == results[i].functions
           analysis == results[i].analysis
       IN /\ Cardinality(cluster) > 4
          /\ analysis.nucleus # None
          /\ \E fn \in cluster \ {analysis.nucleus} :
                /\ EventBoundary(fn)
                /\ ~IsBoilerplate(all_scores[cluster].boilerplate_scores[fn])
                /\ ContextCount(fn) - ContextCount(analysis.nucleus) > 1

\* the functions of the files that can be read
ReadableFunctions ==
    UNION {scored.files[i].fns : i \in {j \in DOMAIN scored.files : scored.files[j].readable}}

\* C22: an unreadable source file never aborts the run, and a finished run
\* has analysed the functions of all the files that could be read.
C22_UnreadableFileIsSkipped ==
    scored.kind = "main" =>
       /\ pc # "raised"
       /\ pc = "done" => functions = ReadableFunctions

\* a run over two files, the first readable and the second not, that has
\* ended at the second file
C22_SecondFileUnreadable ==
    /\ scored.kind = "main"
    /\ Len(scored.files) = 2
    /\ scored.files[1].readable /\ ~scored.files[2].readable
    /\ functions = scored.files[1].fns
    /\ pc = "raised"

\* C23: when the regeneration of the call graph was attempted and failed,
\* the analysis runs with the call graph absent (no graph is loaded),
\* whether or not an older call-graph file exists at the path.
C23_FailedRegenerationMeansNoGraph ==
    (scored.kind = "main" /\ scored.generation = "failed" /\ pc \notin {"main", "load"}) =>
       /\ call_graph = EmptyDict
       /\ scored.loaded = "none"

\* a finished run whose forced regeneration failed and which analysed with
\* the older file found at the path
C23_OldGraphLoadedAfterFailure ==
    /\ scored.kind = "main"
    /\ scored.update_call_graph
    /\ scored.generation = "failed"
    /\ scored.loaded = "old"
    /\ call_graph # EmptyDict
    /\ pc = "done"

\* the calls on the lines from first to last
CallsOnLines(lines, first, last) == UNION {lines[i].calls : i \in first..last}

\* C25: for a well-nested function of several lines the scan stops at the
\* line of the function's own closing `end`, and no call from a line after
\* that `end` is attributed to the function.
C25_ScanStopsAtOwnEnd ==
    scored.kind = "body" =>
       /\ scored.end_line = own_end(scored.lines)
       /\ scored.calls \subseteq CallsOnLines(scored.lines, 2, own_end(scored.lines))

\* a function with a `for ... do` block whose scan ran past its own `end`
\* and took a call from a later line
C25_LoopBodyRunsOn ==
    /\ scored.kind = "body"
    /\ \E i \in 2..own_end(scored.lines) : KeywordCount(scored.lines[i], "for") > 0
    /\ scored.end_line > own_end(scored.lines)
    /\ "shutdown" \in scored.calls
    /\ "shutdown" \notin CallsOnLines(scored.lines, 2, own_end(scored.lines))

\* a function without loops (if, repeat ... until and a nested function only)
\* whose scan stopped at its own `end`
C25_NoLoopStopsAtEnd ==
    /\ scored.kind = "body"
    /\ \A i \in 2..own_end(scored.lines) : KeywordCount(scored.lines[i], "do") = 0
    /\ \E i \in 2..own_end(scored.lines) : BlockOpened(scored.lines[i]) # ""
    /\ own_end(scored.lines) < Len(scored.lines)
    /\ scored.end_line = own_end(scored.lines)

\* the members of a cluster with the highest nucleus score at the gate
TopMembers(cluster) ==
    {fn \in cluster :
        \A other \in cluster :
           QLe(all_scores[cluster].nucleus_scores[other], all_scores[cluster].nucleus_scores[fn])}

\* C26: every cluster that passed the gates is reported with cluster_state
\* `nucleus`, and its nucleus is the member that scored highest at the gate.
C26_ReportedNucleusIsGateTop ==
    \A i \in DOMAIN results :
       /\ results[i].analysis.cluster_state = "nucleus"
       /\ TopMembers(results[i].functions) = {results[i].analysis.nucleus}

\* a reported cluster whose single top member scored at least 0.42 and less
\* than 0.45 at the gate, reported as diffuse and without a nucleus
C26_AcceptedBelowReportThreshold ==
    \E i \in DOMAIN results :
       /\ Cardinality(TopMembers(results[i].functions)) = 1
       /\ \A fn \in TopMembers(results[i].functions) :
             /\ QGe(all_scores[results[i].functions].nucleus_scores[fn], NUCLEUS_THRESHOLD)
             /\ QLt(all_scores[results[i].functions].nucleus_scores[fn], REPORT_NUCLEUS_MIN)
       /\ results[i].analysis.nucleus = None
       /\ results[i].analysis.cluster_state = "diffuse"

\* a reported cluster in state nucleus whose nucleus is its top member
C26_AgreeAboveReportThreshold ==
    \E i \in DOMAIN results :
       /\ results[i].analysis.cluster_state = "nucleus"
       /\ TopMembers(results[i].functions) = {results[i].analysis.nucleus}

\* C27: a candidate cluster in which two thirds or more of the members are
\* lifecycle-named is rejected as boilerplate_dominated.
C27_TwoThirdsLifecycleRejected ==
    \A c \in Processed :
       3 * Cardinality(c \cap LifecycleNamed) >= 2 * Cardinality(c) =>
          /\ \E i \in DOMAIN rejected_clusters :
                /\ rejected_clusters[i].cluster = c
                /\ rejected_clusters[i].reason = "boilerplate_dominated"
          /\ c \notin Accepted

\* a cluster of three with exactly two lifecycle-named members that the
\* gates accepted
C27_ExactlyTwoOfThreeAccepted ==
    \E c \in Accepted :
       /\ Cardinality(c) = 3
       /\ Cardinality(c \cap LifecycleNamed) = 2

\* a cluster of three with exactly two lifecycle-named members that was not
\* rejected as boilerplate_dominated
C27_ExactlyTwoOfThreeNotDominated ==
    \E c \in Processed :
       /\ Cardinality(c) = 3
       /\ Cardinality(c \cap LifecycleNamed) = 2
       /\ \A i \in DOMAIN rejected_clusters :
             rejected_clusters[i].cluster = c =>
                rejected_clusters[i].reason # "boilerplate_dominated"

\* the members the proto-nucleus search takes as candidates, by the scores
\* at the gate
ProtoCandidates(cluster) ==
    {fn \in cluster :
        /\ QLe(PROTO_LOW, all_scores[cluster].nucleus_scores[fn])
        /\ QLt(all_scores[cluster].nucleus_scores[fn], PROTO_HIGH)}

InternalDegree(cluster, fn) == Cardinality(Get(adj, fn, {}) \cap cluster)

\* C29: every reported cluster has hub_strength 1.0 and is typed Primitive
\* or Algorithm; the type Model is never produced.
C29_HubStrengthIsOne ==
    \A i \in DOMAIN results :
       /\ results[i].hub_strength = One
       /\ results[i].type \in {"Primitive", "Algorithm"}

\* a reported cluster typed Algorithm whose members differ in internal
\* degree, the first member in iteration order not being one of the highest
C29_UnequalDegrees ==
    \E i \in DOMAIN results :
       LET cluster == results[i].functions
           first == Iter(cluster, order)[1]
       IN /\ results[i].type = "Algorithm"
          /\ \E fn \in cluster : InternalDegree(cluster, fn) > InternalDegree(cluster, first)

\* the functions of a project whose body textually calls a function of
\* another file of the project
CallsAcrossFiles ==
    {fn \in functions :
        \E callee \in functions :
           /\ FileOf(callee) # FileOf(fn)
           /\ qualify_function_name(callee, FileOf(fn)) \notin functions
           /\ \E c \in calls[fn] : Contains(c, callee)}

EdgeInput ==
    \/ scored.kind = "boilerplate"
          /\ (scored.func_loc = EmptyDict \/ scored.func_loc[scored.fn_name] = 0)
    \/ scored.kind \in {"nucleus", "coupling"} /\ scored.calls = {}
    \/ scored.kind = "nucleus" /\ scored.context_roots = EmptyDict
    \/ scored.kind \in {"nucleus", "gate", "classification"}
          /\ Cardinality(scored.cluster) = 1
    \/ scored.kind = "classification"
          /\ (LocSum(scored.cluster, scored.func_loc) = 0 \/ scored.adjacency = EmptyDict)
    \/ scored.kind = "empty"

\* C24: no scoring, gating or classification step divides by zero, on the
\* edge inputs and on the others: every divisor a step uses is nonzero, and
\* the values it yields are defined.
C24_NoDivisionByZero ==
    scored.kind # "none" =>
       /\ 0 \notin scored.divisors
       /\ \A value \in scored.values : Defined(value)

\* the nucleus score of the one member of a single-member cluster, whose
\* inward call weight is divided by max(1, len(cluster) - 1)
C24_SingleMemberScored ==
    /\ scored.kind = "nucleus"
    /\ Cardinality(scored.cluster) = 1
    /\ InwardCallDivisor(scored.cluster) \in scored.divisors

\* the classification of a cluster of two files with no lines and no
\* internal edge
C24_NoLinesNoEdges ==
    /\ scored.kind = "classification"
    /\ EdgeInput
    /\ LocSum(scored.cluster, scored.func_loc) = 0
    /\ scored.adjacency = EmptyDict
    /\ scored.ownership[1] = "RecommendNewModule"

====
